---- MODULE Spec2Model ----
(***************************************************************************)
(* Model of the cash-flow classifier (CashBudgetAnalyzer) with its         *)
(* category breakdown and expense table, of the debt payoff projector      *)
(* (project_payoff), of the payoff runs that sweep it over scenarios       *)
(* (run_debt_payoff), of the budget-line lookups and of the API client     *)
(* (MonarchClient) of monarch-money-api-cg.                                *)
(*                                                                         *)
(* Numbers.  The program computes with Python floats: every arithmetic     *)
(* operation returns the representable number nearest to the exact result  *)
(* (ties to even).  The model keeps that law with a reduced format: a      *)
(* number is an integer count of quanta (1/Unit, one cent) and is          *)
(* representable when it has at most FPrec significant decimal digits.     *)
(* Sums therefore round, exactly as they do in the program, once they      *)
(* need more digits than the format holds.                                 *)
(***************************************************************************)
EXTENDS Integers, Sequences, FiniteSets, TLC

(***************************************************************************)
(* Bounds of the model.                                                    *)
(***************************************************************************)
FPrec == 3          \* significant decimal digits of the float format
MaxMonths == 3      \* largest explicit max_months argument explored
MaxTxns == 3        \* largest number of fetched transactions
MaxPcts == 2        \* longest list of payoff percentages
MaxCats == 2        \* longest list of budget categories
MaxOps == 3         \* largest number of operations on a client

Unit == 10 * 10     \* quanta per 1.0 (amounts are counted in cents)

None == "None"

(***************************************************************************)
(* Float arithmetic.                                                       *)
(***************************************************************************)
Abs(x) == IF x < 0 THEN 0 - x ELSE x

Sign(x) == IF x < 0 THEN 0 - 1 ELSE 1

RECURSIVE Pow10(_)
Pow10(n) == IF n <= 0 THEN 1 ELSE 10 * Pow10(n - 1)

RECURSIVE Digits(_)
Digits(n) == IF n = 0 THEN 0 ELSE 1 + Digits(n \div 10)

\* nearest integer to num/den (num >= 0, den > 0), ties to even
RoundHalfEven(num, den) ==
    LET f == num \div den
        r == num % den
    IN  IF 2 * r < den THEN f
        ELSE IF 2 * r > den THEN f + 1
        ELSE f + (f % 2)

\* the representable number nearest to the rational num/den (den > 0)
FRound(num, den) ==
    LET a == Abs(num)
        d == Digits(a \div den)
        step == IF d > FPrec THEN Pow10(d - FPrec) ELSE 1
    IN  Sign(num) * RoundHalfEven(a, den * step) * step

FAdd(a, b) == FRound(a + b, 1)

FSub(a, b) == FRound(a - b, 1)

FMul(a, b) == FRound(a * b, Unit)

FDiv(a, b) == FRound(Sign(b) * a * Unit, Abs(b))

FMin(a, b) == IF b < a THEN b ELSE a

\* sum() of a column: the entries added left to right, starting from 0
RECURSIVE FSum(_)
FSum(s) == IF s = <<>> THEN 0
           ELSE FAdd(FSum(SubSeq(s, 1, Len(s) - 1)), s[Len(s)])

(***************************************************************************)
(* State.                                                                  *)
(***************************************************************************)
VARIABLES
    \* project_payoff: arguments
    total_debt, monthly_payment, annual_interest_rate, max_months,
    \* project_payoff: locals
    balance, timeline, total_interest, total_paid, month,
    interest_this_month, payment, pc, result,
    \* CashBudgetAnalyzer: constructor arguments and fields
    transactions, accounts, categories, cc_account_ids,
    cc_payment_category_id,
    \* calculate_top_level_metrics: arguments and returned dict
    start_date, end_date, metrics,
    \* the TopLevelMetrics built by TopLevelMetrics.calculate
    tlm, apc,
    \* run_debt_payoff / run_combined_debt_payoff: the figures gathered
    \* before the checks of the surplus and of the debt
    debt_type, cc_debt, loan_debt, monthly_surplus, base_payment,
    cc_rate, loan_rate, payoff_percentages,
    \* the run: position, index of the scenario in hand, the calls of
    \* project_payoff made so far, the rows added to the table, the lines
    \* drawn on the plot and the messages printed
    rpc, scenario, calls, rows, plot_lines, console,
    \* calculate_category_breakdown, get_expense_breakdown and
    \* display_expense_table: the frames returned and the table shown
    breakdown, expenses, expense_table,
    \* the budget-line lookups: the custom budget, the budget data of the
    \* API, the category name asked for, the position and the value returned
    budget, budget_data, requested_name, lpc, amount_found,
    \* MonarchClient: fields; the MonarchMoney instances that completed a
    \* login; the call in hand (position, bound api_func, remote invocations,
    \* whether _ensure_authenticated ran); the operations completed so far
    _authenticated, _email, _password, mm, logged_in, cpc, api_func,
    invocations, ensured, log

payoffVars == <<total_debt, monthly_payment, annual_interest_rate, max_months,
                balance, timeline, total_interest, total_paid, month,
                interest_this_month, payment, pc, result>>

analyzerVars == <<transactions, accounts, categories, cc_account_ids,
                  cc_payment_category_id, start_date, end_date, metrics, tlm,
                  apc>>

runVars == <<debt_type, cc_debt, loan_debt, monthly_surplus, base_payment,
             cc_rate, loan_rate, payoff_percentages, rpc, scenario, calls,
             rows, plot_lines, console>>

breakdownVars == <<breakdown, expenses, expense_table>>

\* the variables of the parts modelled after the analyzer
lookupVars == <<budget, budget_data, requested_name, lpc, amount_found>>

clientVars == <<_authenticated, _email, _password, mm, logged_in, cpc,
                api_func, invocations, ensured, log>>

restVars == <<breakdownVars, lookupVars, clientVars>>

vars == <<payoffVars, analyzerVars, runVars, restVars>>

\* the analyzer is not in use while a payoff projection runs, and conversely
AnalyzerIdle ==
    /\ transactions = <<>>
    /\ accounts = <<>>
    /\ categories = <<>>
    /\ cc_account_ids = {}
    /\ cc_payment_category_id = None
    /\ start_date = {}
    /\ end_date = {}
    /\ metrics = None
    /\ tlm = None
    /\ apc = "idle"

BreakdownIdle ==
    /\ breakdown = None
    /\ expenses = None
    /\ expense_table = None

LookupIdle ==
    /\ budget = None
    /\ budget_data = None
    /\ requested_name = None
    /\ lpc = "idle"
    /\ amount_found = None

ClientIdle ==
    /\ _authenticated = FALSE
    /\ _email = None
    /\ _password = None
    /\ mm = 0
    /\ logged_in = {}
    /\ cpc = "idle"
    /\ api_func = None
    /\ invocations = <<>>
    /\ ensured = FALSE
    /\ log = <<>>

RestIdle == BreakdownIdle /\ LookupIdle /\ ClientIdle

PayoffIdle ==
    /\ total_debt = 0
    /\ monthly_payment = 0
    /\ annual_interest_rate = 0
    /\ max_months = 0
    /\ balance = 0
    /\ timeline = <<>>
    /\ total_interest = 0
    /\ total_paid = 0
    /\ month = 0
    /\ interest_this_month = None
    /\ payment = None
    /\ pc = "idle"
    /\ result = None

RunIdle ==
    /\ debt_type = None
    /\ cc_debt = 0
    /\ loan_debt = 0
    /\ monthly_surplus = 0
    /\ base_payment = 0
    /\ cc_rate = 0
    /\ loan_rate = 0
    /\ payoff_percentages = <<>>
    /\ rpc = "idle"
    /\ scenario = 0
    /\ calls = <<>>
    /\ rows = <<>>
    /\ plot_lines = <<>>
    /\ console = <<>>

(***************************************************************************)
(* project_payoff (debt_payoff.py).                                        *)
(***************************************************************************)
DefaultMaxMonths == 240

DebtValues == {0 - 100 * Unit, 0, 100 * Unit, 1000 * Unit}

PaymentValues == {0 - 50 * Unit, 0, Unit, 2010, 50 * Unit, 100 * Unit,
                  1020 * Unit}

RateValues == {0 - 12, 0, 12, 24}

\* max_months is an unchecked int: a negative horizon is a possible argument
HorizonValues == ((0 - 1) .. MaxMonths) \cup {DefaultMaxMonths}

monthly_interest_rate(rate) == FDiv(rate, 12 * Unit)

\* LoopBody with the payment taken before the interest is added
LoopBody_PaymentFirst(b, ti, tp, pay, rate) ==
    LET pmt == FMin(pay, b)
        b1 == FSub(b, pmt)
        intr == FMul(b1, monthly_interest_rate(rate))
    IN  [balance |-> FAdd(b1, intr),
         total_interest |-> FAdd(ti, intr),
         total_paid |-> FAdd(tp, pmt),
         interest |-> intr,
         payment |-> pmt]

\* LoopBody with the payment not capped at the balance
LoopBody_NoCap(b, ti, tp, pay, rate) ==
    LET intr == FMul(b, monthly_interest_rate(rate))
        b1 == FAdd(b, intr)
        pmt == pay
    IN  [balance |-> FSub(b1, pmt),
         total_interest |-> FAdd(ti, intr),
         total_paid |-> FAdd(tp, pmt),
         interest |-> intr,
         payment |-> pmt]

\* LoopBody with the payment added to the balance (sign slip)
LoopBody_AddPayment(b, ti, tp, pay, rate) ==
    LET intr == FMul(b, monthly_interest_rate(rate))
        b1 == FAdd(b, intr)
        pmt == FMin(pay, b1)
    IN  [balance |-> FAdd(b1, pmt),
         total_interest |-> FAdd(ti, intr),
         total_paid |-> FAdd(tp, pmt),
         interest |-> intr,
         payment |-> pmt]

\* one pass through the body of the for loop (lines 99-109) from the locals
\* b (balance), ti (total_interest), tp (total_paid)
LoopBody(b, ti, tp, pay, rate) ==
    LET intr == FMul(b, monthly_interest_rate(rate))
        b1 == FAdd(b, intr)
        pmt == FMin(pay, b1)
    IN  [balance |-> FSub(b1, pmt),
         total_interest |-> FAdd(ti, intr),
         total_paid |-> FAdd(tp, pmt),
         interest |-> intr,
         payment |-> pmt]

PayoffInit ==
    /\ total_debt \in DebtValues
    /\ monthly_payment \in PaymentValues
    /\ annual_interest_rate \in RateValues
    /\ max_months \in HorizonValues
    /\ balance = total_debt
    /\ timeline = << <<0, total_debt>> >>
    /\ total_interest = 0
    /\ total_paid = 0
    /\ month = 0
    /\ interest_this_month = None
    /\ payment = None
    /\ pc = "loop"
    /\ result = None
    /\ AnalyzerIdle
    /\ RunIdle
    /\ RestIdle

\* PayoffIterate with the range running one month too far
PayoffIterate_OneMore ==
    /\ pc = "loop"
    /\ month <= max_months
    /\ LET n == LoopBody(balance, total_interest, total_paid,
                         monthly_payment, annual_interest_rate)
       IN  /\ balance' = n.balance
           /\ total_interest' = n.total_interest
           /\ total_paid' = n.total_paid
           /\ month' = month + 1
           /\ interest_this_month' = n.interest
           /\ payment' = n.payment
           /\ timeline' = Append(timeline, <<month + 1, n.balance>>)
           /\ pc' = IF n.balance <= 0 THEN "return" ELSE "loop"
    /\ UNCHANGED <<total_debt, monthly_payment, annual_interest_rate,
                   max_months, result>>
    /\ UNCHANGED <<analyzerVars, runVars, restVars>>

\* PayoffIterate without the break at balance <= 0
PayoffIterate_NoBreak ==
    /\ pc = "loop"
    /\ month < max_months
    /\ LET n == LoopBody(balance, total_interest, total_paid,
                         monthly_payment, annual_interest_rate)
       IN  /\ balance' = n.balance
           /\ total_interest' = n.total_interest
           /\ total_paid' = n.total_paid
           /\ month' = month + 1
           /\ interest_this_month' = n.interest
           /\ payment' = n.payment
           /\ timeline' = Append(timeline, <<month + 1, n.balance>>)
           /\ pc' = "loop"
    /\ UNCHANGED <<total_debt, monthly_payment, annual_interest_rate,
                   max_months, result>>
    /\ UNCHANGED <<analyzerVars, runVars, restVars>>

\* one iteration of `for month in range(1, max_months + 1)`, with its break
PayoffIterate ==
    /\ pc = "loop"
    /\ month < max_months
    /\ LET n == LoopBody(balance, total_interest, total_paid,
                         monthly_payment, annual_interest_rate)
       IN  /\ balance' = n.balance
           /\ total_interest' = n.total_interest
           /\ total_paid' = n.total_paid
           /\ month' = month + 1
           /\ interest_this_month' = n.interest
           /\ payment' = n.payment
           /\ timeline' = Append(timeline, <<month + 1, n.balance>>)
           /\ pc' = IF n.balance <= 0 THEN "return" ELSE "loop"
    /\ UNCHANGED <<total_debt, monthly_payment, annual_interest_rate,
                   max_months, result>>
    /\ UNCHANGED <<analyzerVars, runVars, restVars>>

\* the range is exhausted without a break
PayoffExhausted ==
    /\ pc = "loop"
    /\ month >= max_months
    /\ pc' = "return"
    /\ UNCHANGED <<total_debt, monthly_payment, annual_interest_rate,
                   max_months, balance, timeline, total_interest, total_paid,
                   month, interest_this_month, payment, result>>
    /\ UNCHANGED <<analyzerVars, runVars, restVars>>

\* PayoffReturn reporting every projection as paid off
PayoffReturn_AlwaysPaid ==
    /\ pc = "return"
    /\ result' = [timeline |-> timeline,
                  total_interest |-> total_interest,
                  total_paid |-> total_paid,
                  months |-> Len(timeline) - 1,
                  paid_off |-> TRUE]
    /\ pc' = "done"
    /\ UNCHANGED <<total_debt, monthly_payment, annual_interest_rate,
                   max_months, balance, timeline, total_interest, total_paid,
                   month, interest_this_month, payment>>
    /\ UNCHANGED <<analyzerVars, runVars, restVars>>

PayoffReturn ==
    /\ pc = "return"
    /\ result' = [timeline |-> timeline,
                  total_interest |-> total_interest,
                  total_paid |-> total_paid,
                  months |-> Len(timeline) - 1,
                  paid_off |-> (balance <= 0)]
    /\ pc' = "done"
    /\ UNCHANGED <<total_debt, monthly_payment, annual_interest_rate,
                   max_months, balance, timeline, total_interest, total_paid,
                   month, interest_this_month, payment>>
    /\ UNCHANGED <<analyzerVars, runVars, restVars>>

PayoffNext == PayoffIterate \/ PayoffExhausted \/ PayoffReturn

SpecPayoff == PayoffInit /\ [][PayoffNext]_vars

\* project_payoff as a function of its arguments.  PayoffRun makes k further
\* passes of the loop from the locals s (none once the loop has broken); a
\* run of k passes is the run of its first half followed by the run of the
\* rest, which keeps the evaluation shallow for a horizon of 240 months.
RECURSIVE PayoffRun(_, _, _, _)
PayoffRun(s, k, pay, rate) ==
    IF k <= 0 \/ s.broke THEN s
    ELSE IF k = 1
    THEN CHOOSE r \in
           { [balance |-> n.balance,
              total_interest |-> n.total_interest,
              total_paid |-> n.total_paid,
              months |-> s.months + 1,
              broke |-> n.balance <= 0] :
             n \in {LoopBody(s.balance, s.total_interest, s.total_paid,
                             pay, rate)} } : TRUE
    ELSE CHOOSE r \in
           { PayoffRun(h, k - (k \div 2), pay, rate) :
             h \in {PayoffRun(s, k \div 2, pay, rate)} } : TRUE

project_payoff(debt, pay, rate, maxm) ==
    CHOOSE res \in
      { [total_interest |-> r.total_interest,
         total_paid |-> r.total_paid,
         months |-> r.months,
         paid_off |-> (r.balance <= 0),
         balance |-> r.balance] :
        r \in {PayoffRun([balance |-> debt, total_interest |-> 0,
                          total_paid |-> 0, months |-> 0, broke |-> FALSE],
                         maxm, pay, rate)} } : TRUE

\* the step-by-step run and the function agree
PayoffRunAgrees ==
    pc = "done" =>
        LET f == project_payoff(total_debt, monthly_payment,
                                annual_interest_rate, max_months)
        IN  /\ f.months = result.months
            /\ f.total_interest = result.total_interest
            /\ f.total_paid = result.total_paid
            /\ f.paid_off = result.paid_off

(***************************************************************************)
(* Claims about project_payoff.                                            *)
(***************************************************************************)
\* the balance recorded for timeline entry k (entry 1 is month 0)
BalanceAt(k) == timeline[k][2]

MonthlyRate == FDiv(annual_interest_rate, 12 * Unit)

\* the interest and the payment of the month that follows entry k, by the
\* interest-then-payment recurrence
InterestOf(k) == FMul(BalanceAt(k), MonthlyRate)

AfterInterest(k) == FAdd(BalanceAt(k), InterestOf(k))

PaymentOf(k) == FMin(monthly_payment, AfterInterest(k))

RECURSIVE InterestTotal(_)
InterestTotal(k) == IF k = 0 THEN 0
                    ELSE FAdd(InterestTotal(k - 1), InterestOf(k))

RECURSIVE PaidTotal(_)
PaidTotal(k) == IF k = 0 THEN 0 ELSE FAdd(PaidTotal(k - 1), PaymentOf(k))

\* C7: every simulated month applies interest first and payment second:
\* the balance of month m is the balance of month m-1 plus its interest,
\* minus min(monthly_payment, that sum); total_interest and total_paid are
\* the sums of the interest and payments of this recurrence; debt 1000,
\* payment 100, rate 0.24 leaves 920 after month 1.
C7_InterestThenPayment ==
    /\ month >= 1 =>
            /\ Len(timeline) = month + 1
            /\ timeline[month + 1][1] = month
            /\ interest_this_month = InterestOf(month)
            /\ payment = PaymentOf(month)
            /\ BalanceAt(month + 1) =
                   FSub(AfterInterest(month), PaymentOf(month))
    /\ pc = "done" =>
            /\ result.total_interest = InterestTotal(result.months)
            /\ result.total_paid = PaidTotal(result.months)
    /\ (/\ total_debt = 1000 * Unit
        /\ monthly_payment = 100 * Unit
        /\ annual_interest_rate = 24
        /\ month >= 1) => timeline[2] = <<1, 920 * Unit>>

C7_Witness ==
    /\ pc = "done"
    /\ total_debt = 1000 * Unit
    /\ monthly_payment = 100 * Unit
    /\ annual_interest_rate = 24
    /\ Len(timeline) = 4
    /\ BalanceAt(2) = 920 * Unit
    /\ total_interest > 0

\* C8: the payment of a month never exceeds the balance after interest, so
\* with total_debt >= 0 and annual_rate >= 0 every recorded balance is >= 0
\* and a paid-off projection ends with balance exactly 0.
C8_NeverOverpay ==
    (total_debt >= 0 /\ annual_interest_rate >= 0) =>
        /\ \A k \in 1 .. Len(timeline) : BalanceAt(k) >= 0
        /\ month >= 1 => payment <= AfterInterest(month)
        /\ (pc = "done" /\ result.paid_off) =>
                /\ balance = 0
                /\ BalanceAt(Len(timeline)) = 0

C8_Witness ==
    /\ pc = "done"
    /\ result.paid_off
    /\ total_debt > 0
    /\ annual_interest_rate > 0
    /\ month >= 2
    /\ payment < monthly_payment
    /\ balance = 0

PaymentExceedsInterest ==
    monthly_payment > FDiv(FMul(total_debt, annual_interest_rate), 12 * Unit)

\* C9 as stated: with total_debt > 0, annual_rate >= 0 and monthly_payment
\* above the first month's interest, the default horizon always ends with
\* paid_off = true.
C9_Original ==
    (/\ pc = "done"
     /\ total_debt > 0
     /\ annual_interest_rate >= 0
     /\ PaymentExceedsInterest
     /\ max_months = DefaultMaxMonths) => result.paid_off

\* C9 (amended): with total_debt > 0, annual_rate >= 0, max_months >= 0 and
\* monthly_payment above the first month's interest, project_payoff returns
\* after at most max_months iterations (the loop counter only grows and
\* never passes max_months); paid_off is true exactly when the balance has
\* reached 0 within max_months months, and otherwise the result has
\* paid_off = false and months = max_months.
C9_TerminatesWithinHorizon ==
    (/\ total_debt > 0
     /\ annual_interest_rate >= 0
     /\ PaymentExceedsInterest
     /\ max_months >= 0) =>
        /\ month <= max_months
        /\ Len(timeline) = month + 1
        /\ pc \in {"loop", "return", "done"}
        /\ pc = "done" =>
                /\ result.months <= max_months
                /\ result.paid_off <=> (BalanceAt(Len(timeline)) <= 0)
                /\ ~result.paid_off => result.months = max_months

C9_Witness ==
    /\ pc = "done"
    /\ total_debt > 0
    /\ annual_interest_rate > 0
    /\ PaymentExceedsInterest
    /\ max_months = DefaultMaxMonths
    /\ ~result.paid_off
    /\ result.months = DefaultMaxMonths

\* months and total_interest do not grow when the payment is raised to p2
NoWorseWith(p2) ==
    LET f == project_payoff(total_debt, p2, annual_interest_rate, max_months)
    IN  /\ f.months <= result.months
        /\ f.total_interest <= result.total_interest

\* C10 as stated: for any fixed total_debt, annual_rate and max_months, a
\* larger payment never gives more months or more total interest.
C10_Original ==
    pc = "done" =>
        \A p2 \in PaymentValues : monthly_payment <= p2 => NoWorseWith(p2)

\* C10 (amended): for fixed total_debt, max_months and annual_rate >= 0, a
\* larger payment never gives more months or more total interest.
C10_Monotone ==
    (pc = "done" /\ annual_interest_rate >= 0) =>
        \A p2 \in PaymentValues : monthly_payment <= p2 => NoWorseWith(p2)

C10_Witness ==
    /\ pc = "done"
    /\ annual_interest_rate > 0
    /\ total_debt > 0
    /\ \E p2 \in PaymentValues :
            LET f == project_payoff(total_debt, p2, annual_interest_rate,
                                    max_months)
            IN  /\ monthly_payment < p2
                /\ f.months < result.months
                /\ f.total_interest < result.total_interest
(***************************************************************************)
(* run_debt_payoff and run_combined_debt_payoff (debt_payoff.py): the      *)
(* checks of the surplus and of the debt, the scenario table and the plot. *)
(***************************************************************************)
DebtTypes == {"cc", "loan", "both"}

\* a debt total is a sum of abs(currentBalance) over accounts in debt
RunDebtValues == {0, 100 * Unit, 1000 * Unit}

\* starting_cash + expected_income - expected_expenses
SurplusValues == {0 - 100 * Unit, 0, 100 * Unit, 500 * Unit}

\* the budgeted amount of the loan category, as the budget file gives it
BasePaymentValues == {0 - 50 * Unit, 0, 50 * Unit}

RunRateValues == {12, 24}

\* allocation percentages of debt_config.json, in hundredths
PctValues == {0, 25, 50}

PercentageLists == UNION { [1 .. n -> PctValues] : n \in 0 .. MaxPcts }

\* the scenario table of display_combined_summary: (cc_pct, loan_pct, name)
CombinedScenarios ==
    << <<10, 10, "Conservative">>, <<15, 15, "Moderate">>,
       <<20, 20, "Balanced">>, <<25, 25, "Aggressive">>,
       <<10, 15, "Loan Focus">>, <<15, 10, "CC Focus">> >>

\* the scenario table of generate_combined_payoff_plot
CombinedPlotScenarios ==
    << <<10, 10, "10%/10% Conservative">>, <<20, 20, "20%/20% Balanced">>,
       <<25, 25, "25%/25% Aggressive">>, <<15, 10, "15%/10% CC Focus">>,
       <<10, 15, "10%/15% Loan Focus">> >>

\* format_currency: a sign, the whole dollars and the two decimals
format_currency(amount) ==
    [negative |-> amount < 0,
     dollars |-> Abs(amount) \div Unit,
     cents |-> Abs(amount) % Unit]

\* a table cell holding a formatted amount, and the cell reading "N/A"
AmountCell(amount) == {format_currency(amount)}

NA == {}

\* the total the debt check looks at, and the rate of a single-debt run
TotalDebt ==
    IF debt_type = "both" THEN FAdd(cc_debt, loan_debt)
    ELSE IF debt_type = "loan" THEN loan_debt ELSE cc_debt

annual_rate == IF debt_type = "loan" THEN loan_rate ELSE cc_rate

\* one call of project_payoff, as the log of calls records it
Call(caller, debt, pay, rate) ==
    [caller |-> caller, total_debt |-> debt, monthly_payment |-> pay,
     annual_interest_rate |-> rate]

RunInitial ==
    /\ debt_type \in DebtTypes
    /\ cc_debt \in IF debt_type = "loan" THEN {0} ELSE RunDebtValues
    /\ loan_debt \in IF debt_type = "cc" THEN {0} ELSE RunDebtValues
    /\ monthly_surplus \in SurplusValues
    /\ base_payment \in IF debt_type = "cc" THEN {0} ELSE BasePaymentValues
    /\ cc_rate \in IF debt_type = "loan" THEN {0} ELSE RunRateValues
    /\ loan_rate \in IF debt_type = "cc" THEN {0} ELSE RunRateValues
    /\ payoff_percentages \in IF debt_type = "both" THEN {<<>>}
                              ELSE PercentageLists
    /\ rpc = "checks"
    /\ scenario = 0
    /\ calls = <<>>
    /\ rows = <<>>
    /\ plot_lines = <<>>
    /\ console = <<>>
    /\ PayoffIdle
    /\ AnalyzerIdle
    /\ RestIdle

\* RunChecks without the check of the surplus
RunChecks_NoSurplusCheck ==
    /\ rpc = "checks"
    /\ IF TotalDebt <= 0
       THEN /\ console' = Append(console, "no debt")
            /\ rpc' = "returned"
       ELSE /\ console' = console
            /\ rpc' = "summary"
    /\ UNCHANGED <<debt_type, cc_debt, loan_debt, monthly_surplus,
                   base_payment, cc_rate, loan_rate, payoff_percentages,
                   scenario, calls, rows, plot_lines>>
    /\ UNCHANGED <<payoffVars, analyzerVars, restVars>>

\* RunChecks without the check of the debt
RunChecks_NoDebtCheck ==
    /\ rpc = "checks"
    /\ IF monthly_surplus <= 0
       THEN /\ console' = console \o
                   IF debt_type = "both" THEN <<"no surplus">>
                   ELSE IF base_payment > 0
                        THEN <<"no surplus", "base amount">>
                        ELSE <<"no surplus", "reduce expenses">>
            /\ rpc' = "returned"
       ELSE /\ console' = console
            /\ rpc' = "summary"
    /\ UNCHANGED <<debt_type, cc_debt, loan_debt, monthly_surplus,
                   base_payment, cc_rate, loan_rate, payoff_percentages,
                   scenario, calls, rows, plot_lines>>
    /\ UNCHANGED <<payoffVars, analyzerVars, restVars>>

\* the checks before the table: surplus first, then debt
RunChecks ==
    /\ rpc = "checks"
    /\ IF monthly_surplus <= 0
       THEN /\ console' = console \o
                   IF debt_type = "both" THEN <<"no surplus">>
                   ELSE IF base_payment > 0
                        THEN <<"no surplus", "base amount">>
                        ELSE <<"no surplus", "reduce expenses">>
            /\ rpc' = "returned"
       ELSE IF TotalDebt <= 0
       THEN /\ console' = Append(console, "no debt")
            /\ rpc' = "returned"
       ELSE /\ console' = console
            /\ rpc' = "summary"
    /\ UNCHANGED <<debt_type, cc_debt, loan_debt, monthly_surplus,
                   base_payment, cc_rate, loan_rate, payoff_percentages,
                   scenario, calls, rows, plot_lines>>
    /\ UNCHANGED <<payoffVars, analyzerVars, restVars>>

\* display_summary: one pass of `for pct in payoff_percentages`
DisplayScenario ==
    /\ rpc = "summary"
    /\ debt_type # "both"
    /\ scenario < Len(payoff_percentages)
    /\ LET pct == payoff_percentages[scenario + 1]
           additional_payment == FMul(monthly_surplus, pct)
           total_payment == FAdd(base_payment, additional_payment)
       IN  \E res \in {project_payoff(TotalDebt, total_payment, annual_rate,
                                      DefaultMaxMonths)} :
           LET
           row == IF res.paid_off
                  THEN [allocation |-> pct,
                        additional |-> IF base_payment > 0
                                       THEN AmountCell(additional_payment)
                                       ELSE NA,
                        total_payment |-> format_currency(total_payment),
                        months |-> [n |-> res.months, plus |-> FALSE],
                        payoff_date |-> [within |-> TRUE, n |-> res.months],
                        total_interest |-> AmountCell(res.total_interest),
                        style |-> ""]
                  ELSE [allocation |-> pct,
                        additional |-> IF base_payment > 0
                                       THEN AmountCell(additional_payment)
                                       ELSE NA,
                        total_payment |-> format_currency(total_payment),
                        months |-> [n |-> IF base_payment > 0 THEN 240
                                          ELSE 120,
                                    plus |-> TRUE],
                        payoff_date |-> [within |-> FALSE,
                                         n |-> IF base_payment > 0 THEN 20
                                               ELSE 10],
                        total_interest |-> NA,
                        style |-> "dim"]
           IN  /\ calls' = Append(calls, Call("display_summary", TotalDebt,
                                              total_payment, annual_rate))
               /\ rows' = Append(rows, row)
    /\ scenario' = scenario + 1
    /\ UNCHANGED <<debt_type, cc_debt, loan_debt, monthly_surplus,
                   base_payment, cc_rate, loan_rate, payoff_percentages,
                   rpc, plot_lines, console>>
    /\ UNCHANGED <<payoffVars, analyzerVars, restVars>>

\* CombinedResult with the two debts merged into one balance
CombinedResult_Merged(debt, pay, rate, called) ==
    IF called
    THEN {project_payoff(FAdd(cc_debt, loan_debt), pay, rate,
                         DefaultMaxMonths)}
    ELSE {}

\* project_payoff for one debt of a combined scenario, or no call at all:
\* the set holds the result when the call is made
CombinedResult(debt, pay, rate, called) ==
    IF called THEN {project_payoff(debt, pay, rate, DefaultMaxMonths)}
    ELSE {}

\* display_combined_summary: one pass of `for cc_pct, loan_pct, desc`
DisplayCombinedScenario ==
    /\ rpc = "summary"
    /\ debt_type = "both"
    /\ scenario < Len(CombinedScenarios)
    /\ LET cc_pct == CombinedScenarios[scenario + 1][1]
           loan_pct == CombinedScenarios[scenario + 1][2]
           desc == CombinedScenarios[scenario + 1][3]
           total_pct == FAdd(cc_pct, loan_pct)
           cc_payment == FMul(monthly_surplus, cc_pct)
           loan_additional == FMul(monthly_surplus, loan_pct)
           loan_payment == FAdd(base_payment, loan_additional)
           cc_called == cc_debt > 0 /\ cc_payment > 0
           loan_called == loan_debt > 0
       IN  \E cc_result \in {CombinedResult(cc_debt, cc_payment, cc_rate,
                                              cc_called)},
              loan_result \in {CombinedResult(loan_debt, loan_payment,
                                                loan_rate, loan_called)} :
           LET
           cc_paid == \E r \in cc_result : r.paid_off
           loan_paid == \E r \in loan_result : r.paid_off
           cc_payoff_str ==
               IF cc_paid
               THEN [text |-> "date",
                     n |-> (CHOOSE r \in cc_result : TRUE).months]
               ELSE IF cc_debt <= 0 THEN [text |-> "No debt", n |-> 0]
               ELSE [text |-> "10+ yrs", n |-> 0]
           cc_interest ==
               IF cc_paid THEN (CHOOSE r \in cc_result : TRUE).total_interest
               ELSE 0
           loan_payoff_str ==
               IF loan_paid
               THEN [text |-> "date",
                     n |-> (CHOOSE r \in loan_result : TRUE).months]
               ELSE IF loan_debt <= 0 THEN [text |-> "No debt", n |-> 0]
               ELSE [text |-> "20+ yrs", n |-> 0]
           loan_interest ==
               IF loan_paid
               THEN (CHOOSE r \in loan_result : TRUE).total_interest
               ELSE 0
           total_interest_shown == FAdd(cc_interest, loan_interest)
           row == [scenario |-> desc,
                   cc_pct |-> cc_pct,
                   loan_pct |-> loan_pct,
                   cc_payment |-> format_currency(cc_payment),
                   loan_payment |-> format_currency(loan_payment),
                   cc_payoff |-> cc_payoff_str,
                   loan_payoff |-> loan_payoff_str,
                   total_interest |-> IF total_interest_shown > 0
                                      THEN AmountCell(total_interest_shown)
                                      ELSE NA]
           IN
           IF total_pct > Unit
           THEN UNCHANGED <<calls, rows>>
           ELSE /\ calls' = calls
                       \o (IF cc_called
                           THEN <<Call("display_combined_summary", cc_debt,
                                       cc_payment, cc_rate)>>
                           ELSE <<>>)
                       \o (IF loan_called
                           THEN <<Call("display_combined_summary", loan_debt,
                                       loan_payment, loan_rate)>>
                           ELSE <<>>)
                /\ rows' = Append(rows, row)
    /\ scenario' = scenario + 1
    /\ UNCHANGED <<debt_type, cc_debt, loan_debt, monthly_surplus,
                   base_payment, cc_rate, loan_rate, payoff_percentages,
                   rpc, plot_lines, console>>
    /\ UNCHANGED <<payoffVars, analyzerVars, restVars>>

\* the number of passes of the loop of the table, and of the plot
TableScenarios ==
    IF debt_type = "both" THEN Len(CombinedScenarios)
    ELSE Len(payoff_percentages)

PlotScenarios ==
    IF debt_type = "both" THEN Len(CombinedPlotScenarios)
    ELSE Len(payoff_percentages)

\* console.print(table), then the plot is started
DisplayDone ==
    /\ rpc = "summary"
    /\ scenario >= TableScenarios
    /\ console' = Append(console, "table")
    /\ rpc' = "plot"
    /\ scenario' = 0
    /\ UNCHANGED <<debt_type, cc_debt, loan_debt, monthly_surplus,
                   base_payment, cc_rate, loan_rate, payoff_percentages,
                   calls, rows, plot_lines>>
    /\ UNCHANGED <<payoffVars, analyzerVars, restVars>>

\* generate_payoff_plot: one pass of `for i, pct in enumerate(...)`
PlotScenario ==
    /\ rpc = "plot"
    /\ debt_type # "both"
    /\ scenario < Len(payoff_percentages)
    /\ LET pct == payoff_percentages[scenario + 1]
           additional_payment == FMul(monthly_surplus, pct)
           total_payment == FAdd(base_payment, additional_payment)
       IN  \E res \in {project_payoff(TotalDebt, total_payment, annual_rate,
                                      DefaultMaxMonths)} :
           /\ calls' = Append(calls, Call("generate_payoff_plot", TotalDebt,
                                          total_payment, annual_rate))
           /\ plot_lines' = Append(plot_lines,
                                   [axis |-> debt_type,
                                    label |-> pct,
                                    points |-> res.months + 1,
                                    last_balance |-> res.balance,
                                    annotated |-> res.paid_off])
    /\ scenario' = scenario + 1
    /\ UNCHANGED <<debt_type, cc_debt, loan_debt, monthly_surplus,
                   base_payment, cc_rate, loan_rate, payoff_percentages,
                   rpc, rows, console>>
    /\ UNCHANGED <<payoffVars, analyzerVars, restVars>>

\* a line of the combined plot, when the projection is made
CombinedLine(axis, label, res) ==
    IF res = {} THEN <<>>
    ELSE LET r == CHOOSE x \in res : TRUE
         IN  << [axis |-> axis, label |-> label, points |-> r.months + 1,
                 last_balance |-> r.balance, annotated |-> FALSE] >>

\* generate_combined_payoff_plot: one pass of its loop
PlotCombinedScenario ==
    /\ rpc = "plot"
    /\ debt_type = "both"
    /\ scenario < Len(CombinedPlotScenarios)
    /\ LET cc_pct == CombinedPlotScenarios[scenario + 1][1]
           loan_pct == CombinedPlotScenarios[scenario + 1][2]
           label == CombinedPlotScenarios[scenario + 1][3]
           cc_payment == FMul(monthly_surplus, cc_pct)
           loan_payment == FAdd(base_payment, FMul(monthly_surplus, loan_pct))
           cc_called == cc_debt > 0 /\ cc_payment > 0
           loan_called == loan_debt > 0
       IN  \E cc_result \in {CombinedResult(cc_debt, cc_payment, cc_rate,
                                              cc_called)},
              loan_result \in {CombinedResult(loan_debt, loan_payment,
                                                loan_rate, loan_called)} :
           /\ calls' = calls
                  \o (IF cc_called
                      THEN <<Call("generate_combined_payoff_plot", cc_debt,
                                  cc_payment, cc_rate)>>
                      ELSE <<>>)
                  \o (IF loan_called
                      THEN <<Call("generate_combined_payoff_plot", loan_debt,
                                  loan_payment, loan_rate)>>
                      ELSE <<>>)
           /\ plot_lines' = plot_lines
                  \o CombinedLine("cc", label, cc_result)
                  \o CombinedLine("loan", label, loan_result)
    /\ scenario' = scenario + 1
    /\ UNCHANGED <<debt_type, cc_debt, loan_debt, monthly_surplus,
                   base_payment, cc_rate, loan_rate, payoff_percentages,
                   rpc, rows, console>>
    /\ UNCHANGED <<payoffVars, analyzerVars, restVars>>

\* plt.savefig and the closing message
PlotDone ==
    /\ rpc = "plot"
    /\ scenario >= PlotScenarios
    /\ console' = Append(console, "plot saved")
    /\ rpc' = "returned"
    /\ UNCHANGED <<debt_type, cc_debt, loan_debt, monthly_surplus,
                   base_payment, cc_rate, loan_rate, payoff_percentages,
                   scenario, calls, rows, plot_lines>>
    /\ UNCHANGED <<payoffVars, analyzerVars, restVars>>

RunNext ==
    \/ RunChecks
    \/ DisplayScenario
    \/ DisplayCombinedScenario
    \/ DisplayDone
    \/ PlotScenario
    \/ PlotCombinedScenario
    \/ PlotDone

SpecRun == RunInitial /\ [][RunNext]_vars

(***************************************************************************)
(* CashBudgetAnalyzer (monarch_budgeting/analyzer.py).                     *)
(***************************************************************************)
EXCLUDED_CATEGORIES == {"Dividends & Capital Gains"}

Acct(id, type) == [id |-> id, type |-> type]

\* the account lists the data-fetch layer may hand over
AccountLists ==
    { << Acct("chk", "checking"), Acct("card", "credit") >>,
      << Acct("chk", "checking") >>,
      << Acct("chk", "checking"), Acct("card", "other") >> }

Cat(id, name, type, sys) ==
    [id |-> id, name |-> name, category_type |-> type, system_category |-> sys]

\* the category maps (in dict order) the data-fetch layer may hand over
CategoryMaps ==
    { << Cat("salary", "Salary", "income", "paychecks"),
         Cat("rent", "Rent", "expense", None),
         Cat("groceries", "Groceries", "expense", "groceries"),
         Cat("ccpay", "Credit Card Payment", "transfer", "credit_card_payment"),
         Cat("div", "Dividends & Capital Gains", "income", None) >>,
      << Cat("salary", "Salary", "income", "paychecks"),
         Cat("rent", "Rent", "expense", None),
         Cat("groceries", "Groceries", "expense", "groceries"),
         Cat("ccpay", "Credit Card Payment", "transfer", None),
         Cat("div", "Dividends & Capital Gains", "income", None) >> }

\* a transaction after the nested account and category fields are extracted
\* (lines 492-500): a missing category gives id None, name 'Uncategorized'
Txn(amount, date, account_id, category_id, category_name) ==
    [amount |-> amount, date |-> date, account_id |-> account_id,
     category_id |-> category_id, category_name |-> category_name]

Salary == Txn(5000 * Unit, 2, "chk", "salary", "Salary")
Rent == Txn(0 - 1500 * Unit, 2, "chk", "rent", "Rent")
GroceriesOnCard == Txn(0 - 300 * Unit, 2, "card", "groceries", "Groceries")
CardPaymentOut == Txn(0 - 800 * Unit, 2, "chk", "ccpay", "Credit Card Payment")
CardPaymentIn == Txn(800 * Unit, 2, "card", "ccpay", "Credit Card Payment")

TxnPool ==
    { Salary, Rent, GroceriesOnCard, CardPaymentOut, CardPaymentIn,
      Txn(40 * Unit, 2, "chk", "div", "Dividends & Capital Gains"),
      Txn(0 - 40 * Unit, 2, "chk", "div", "Dividends & Capital Gains"),
      Txn(0 - 5, 2, "card", "groceries", "Groceries"),
      Txn(0 - 6, 2, "chk", "rent", "Rent"),
      Txn(0 - 995, 3, "chk", "rent", "Rent"),
      Txn(0 - 25 * Unit, 1, None, None, "Uncategorized") }

\* the classifier scenario of the specification
Fixture == << Salary, Rent, GroceriesOnCard, CardPaymentOut >>

\* an optional date argument: {} when not provided, {d} when provided
NoDate == {}

DateArgs == { <<NoDate, NoDate>>, <<{2}, {3}>> }

Category_is_cc_payment(cat) == cat.system_category = "credit_card_payment"

\* CreditAccountIds without the test of the account type
CreditAccountIds_All(accs) == { accs[i].id : i \in 1 .. Len(accs) }

\* __init__, lines 459-462
CreditAccountIds(accs) ==
    { accs[i].id : i \in { j \in 1 .. Len(accs) : accs[j].type = "credit" } }

\* __init__, lines 471-475: the first flagged category in dict order
RECURSIVE FindCcPaymentCategory(_)
FindCcPaymentCategory(cats) ==
    IF cats = <<>> THEN None
    ELSE IF Category_is_cc_payment(Head(cats)) THEN Head(cats).id
    ELSE FindCcPaymentCategory(Tail(cats))

\* _prepare_dataframe, lines 505-509; a comparison with a missing value is
\* false on either side
is_cc_account(t, ccIds) == t.account_id \in ccIds

\* is_cc_payment with a missing category equal to a missing payment category
is_cc_payment_NoneMatches(t, ccPay) == t.category_id = ccPay

is_cc_payment(t, ccPay) ==
    /\ t.category_id # None
    /\ ccPay # None
    /\ t.category_id = ccPay

_is_excluded_category(category_name) == category_name \in EXCLUDED_CATEGORIES

Amounts(df) == [i \in 1 .. Len(df) |-> df[i].amount]

\* lines 546-549
DateFilter(df, sd, ed) ==
    LET Keep(t) == /\ \A d \in sd : t.date >= d
                   /\ \A d \in ed : t.date <= d
    IN  SelectSeq(df, Keep)

\* IncomeRows without the rows that have no category
IncomeRows_Categorised(df, ccPay) ==
    LET Keep(t) == /\ t.amount > 0
                   /\ t.category_id # None
                   /\ ~is_cc_payment(t, ccPay)
                   /\ ~_is_excluded_category(t.category_name)
    IN  SelectSeq(df, Keep)

\* lines 552-553
IncomeRows(df, ccPay) ==
    LET Keep(t) == /\ t.amount > 0
                   /\ ~is_cc_payment(t, ccPay)
                   /\ ~_is_excluded_category(t.category_name)
    IN  SelectSeq(df, Keep)

\* ExpenseRows keeping the rows of the CC-payment category
ExpenseRows_KeepPayments(df, ccPay) ==
    LET Keep(t) == t.amount < 0
    IN  SelectSeq(df, Keep)

\* line 557
ExpenseRows(df, ccPay) ==
    LET Keep(t) == t.amount < 0 /\ ~is_cc_payment(t, ccPay)
    IN  SelectSeq(df, Keep)

\* CcExpenseRows without the credit-account filter
CcExpenseRows_All(expense_df, ccIds) == expense_df

\* line 561
CcExpenseRows(expense_df, ccIds) ==
    LET Keep(t) == is_cc_account(t, ccIds)
    IN  SelectSeq(expense_df, Keep)

\* line 570
CcPaymentRows(df, ccIds, ccPay) ==
    LET Keep(t) == /\ is_cc_payment(t, ccPay)
                   /\ ~is_cc_account(t, ccIds)
                   /\ t.amount < 0
    IN  SelectSeq(df, Keep)

MetricsDict(ti, te, cc, cash, cp, tcr) ==
    [total_income |-> ti, total_expenses |-> te, cc_expenses |-> cc,
     cash_expenses |-> cash, cc_payments |-> cp,
     true_cash_remaining |-> tcr, total_new_cc_spending |-> cc]

\* calculate_top_level_metrics with the remaining cash taken from all
\* expenses instead of the cash expenses
calculate_top_level_metrics_AllExpenses(txns, ccIds, ccPay, sd, ed) ==
    IF txns = <<>> THEN MetricsDict(0, 0, 0, 0, 0, 0)
    ELSE
        LET df == DateFilter(txns, sd, ed)
            total_income_ == FSum(Amounts(IncomeRows(df, ccPay)))
            expense_df == ExpenseRows(df, ccPay)
            total_expenses_ == Abs(FSum(Amounts(expense_df)))
            cc_expenses_ == Abs(FSum(Amounts(CcExpenseRows(expense_df, ccIds))))
            cash_expenses_ == FSub(total_expenses_, cc_expenses_)
            cc_payments_ == Abs(FSum(Amounts(CcPaymentRows(df, ccIds, ccPay))))
            true_cash_remaining_ ==
                FSub(FSub(total_income_, total_expenses_), cc_payments_)
        IN  MetricsDict(total_income_, total_expenses_, cc_expenses_,
                        cash_expenses_, cc_payments_, true_cash_remaining_)

\* calculate_top_level_metrics with the expense totals left signed (no abs)
calculate_top_level_metrics_Signed(txns, ccIds, ccPay, sd, ed) ==
    IF txns = <<>> THEN MetricsDict(0, 0, 0, 0, 0, 0)
    ELSE
        LET df == DateFilter(txns, sd, ed)
            total_income_ == FSum(Amounts(IncomeRows(df, ccPay)))
            expense_df == ExpenseRows(df, ccPay)
            total_expenses_ == FSum(Amounts(expense_df))
            cc_expenses_ == FSum(Amounts(CcExpenseRows(expense_df, ccIds)))
            cash_expenses_ == FSub(total_expenses_, cc_expenses_)
            cc_payments_ == Abs(FSum(Amounts(CcPaymentRows(df, ccIds, ccPay))))
            true_cash_remaining_ ==
                FSub(FSub(total_income_, cash_expenses_), cc_payments_)
        IN  MetricsDict(total_income_, total_expenses_, cc_expenses_,
                        cash_expenses_, cc_payments_, true_cash_remaining_)

\* calculate_top_level_metrics, lines 532-584
calculate_top_level_metrics(txns, ccIds, ccPay, sd, ed) ==
    IF txns = <<>> THEN MetricsDict(0, 0, 0, 0, 0, 0)
    ELSE
        LET df == DateFilter(txns, sd, ed)
            total_income_ == FSum(Amounts(IncomeRows(df, ccPay)))
            expense_df == ExpenseRows(df, ccPay)
            total_expenses_ == Abs(FSum(Amounts(expense_df)))
            cc_expenses_ == Abs(FSum(Amounts(CcExpenseRows(expense_df, ccIds))))
            cash_expenses_ == FSub(total_expenses_, cc_expenses_)
            cc_payments_ == Abs(FSum(Amounts(CcPaymentRows(df, ccIds, ccPay))))
            true_cash_remaining_ ==
                FSub(FSub(total_income_, cash_expenses_), cc_payments_)
        IN  MetricsDict(total_income_, total_expenses_, cc_expenses_,
                        cash_expenses_, cc_payments_, true_cash_remaining_)

\* TopLevelMetrics.calculate (budget_data.py, lines 79-97)
TopLevelMetrics_calculate(ti, te, cc, cp) ==
    LET cash_expenses_ == FSub(te, cc)
        true_cash_remaining_ == FSub(FSub(ti, cash_expenses_), cp)
    IN  MetricsDict(ti, te, cc, cash_expenses_, cp, true_cash_remaining_)

AnalyzerInitial ==
    /\ transactions \in {<<>>, Fixture}
    /\ accounts \in AccountLists
    /\ categories \in CategoryMaps
    /\ \E d \in DateArgs : start_date = d[1] /\ end_date = d[2]
    /\ cc_account_ids = {}
    /\ cc_payment_category_id = None
    /\ metrics = None
    /\ tlm = None
    /\ apc = "fetch"
    /\ PayoffIdle
    /\ RunIdle
    /\ RestIdle

\* the data-fetch layer delivers one more transaction of the period
FetchTransaction ==
    /\ apc = "fetch"
    /\ Len(transactions) < MaxTxns
    /\ \E t \in TxnPool : transactions' = Append(transactions, t)
    /\ UNCHANGED <<accounts, categories, cc_account_ids,
                   cc_payment_category_id, start_date, end_date, metrics,
                   tlm, apc>>
    /\ UNCHANGED <<payoffVars, runVars, restVars>>

\* CashBudgetAnalyzer.__init__
AnalyzerInit ==
    /\ apc = "fetch"
    /\ cc_account_ids' = CreditAccountIds(accounts)
    /\ cc_payment_category_id' = FindCcPaymentCategory(categories)
    /\ apc' = "ready"
    /\ UNCHANGED <<transactions, accounts, categories, start_date, end_date,
                   metrics, tlm>>
    /\ UNCHANGED <<payoffVars, runVars, restVars>>

\* CashBudgetAnalyzer.calculate_top_level_metrics
CalculateTopLevelMetrics ==
    /\ apc = "ready"
    /\ metrics' = calculate_top_level_metrics(transactions, cc_account_ids,
                      cc_payment_category_id, start_date, end_date)
    /\ apc' = "done"
    /\ UNCHANGED <<transactions, accounts, categories, cc_account_ids,
                   cc_payment_category_id, start_date, end_date, tlm>>
    /\ UNCHANGED <<payoffVars, runVars, restVars>>

\* TopLevelMetrics.calculate on the four base values of the returned dict
BuildTopLevelMetrics ==
    /\ apc = "done"
    /\ tlm' = TopLevelMetrics_calculate(metrics.total_income,
                  metrics.total_expenses, metrics.cc_expenses,
                  metrics.cc_payments)
    /\ apc' = "built"
    /\ UNCHANGED <<transactions, accounts, categories, cc_account_ids,
                   cc_payment_category_id, start_date, end_date, metrics>>
    /\ UNCHANGED <<payoffVars, runVars, restVars>>

AnalyzerNext ==
    \/ FetchTransaction
    \/ AnalyzerInit
    \/ CalculateTopLevelMetrics
    \/ BuildTopLevelMetrics

SpecAnalyzer == AnalyzerInitial /\ [][AnalyzerNext]_vars

(***************************************************************************)
(* Category breakdown (monarch_budgeting/analyzer.py, lines 586-705) and   *)
(* the expense table (monarch_budgeting/budget_display.py, lines 128-186). *)
(***************************************************************************)
\* the transactions the breakdown is explored on: known categories of each
\* type on both kinds of account, refunds, a category id absent from the
\* category map and transactions without a category
BreakdownPool ==
    { Salary, Rent, GroceriesOnCard, CardPaymentOut,
      Txn(20 * Unit, 2, "chk", "groceries", "Groceries"),
      Txn(400 * Unit, 2, "card", "groceries", "Groceries"),
      Txn(0 - 30 * Unit, 2, "chk", "old", "Old Category"),
      Txn(40 * Unit, 2, "chk", "olddiv", "Dividends & Capital Gains"),
      Txn(0 - 25 * Unit, 2, "chk", None, "Uncategorized"),
      Txn(15 * Unit, 2, "chk", None, "Uncategorized") }

BreakdownInputs == UNION { [1 .. n -> BreakdownPool] : n \in 0 .. MaxTxns }

\* groupby('category_id') visits the category ids in sorted order
CategoryIdOrder ==
    << "ccpay", "div", "groceries", "old", "olddiv", "rent", "salary" >>

\* self.categories.get(cat_id): the category with that id, if any
CategoryGet(cats, cat_id) ==
    { cats[i] : i \in { j \in 1 .. Len(cats) : cats[j].id = cat_id } }

Category_is_expense(cat) == cat.category_type = "expense"

\* a frame: pd.DataFrame([]) has no columns, the other frames have them
Frame(columns, rws) == [columns |-> columns, rows |-> rws]

\* lines 625-645: the row of one category
BreakdownRow(cat, group, ccIds) ==
    LET total == FSum(Amounts(group))
        cc_total == FSum(Amounts(CcExpenseRows(group, ccIds)))
        actual == IF Category_is_expense(cat) THEN Abs(total) ELSE total
        cc_amt == IF Category_is_expense(cat) THEN Abs(cc_total) ELSE cc_total
        cash_amt == IF Category_is_expense(cat) THEN FSub(actual, cc_amt) ELSE 0
    IN  [category_id |-> cat.id, category_name |-> cat.name,
         category_type |-> cat.category_type, actual_amount |-> actual,
         cc_amount |-> IF Category_is_expense(cat) THEN cc_amt ELSE 0,
         cash_amount |-> cash_amt]

\* lines 617-645: one row per category id that has rows in df and is in the
\* category map; rows without a category id belong to no group
RECURSIVE BreakdownResults(_, _, _, _)
BreakdownResults(ids, df, cats, ccIds) ==
    IF ids = <<>> THEN <<>>
    ELSE LET InGroup(t) == t.category_id = Head(ids)
             group == SelectSeq(df, InGroup)
             cat == CategoryGet(cats, Head(ids))
             rest == BreakdownResults(Tail(ids), df, cats, ccIds)
         IN  IF group = <<>> \/ cat = {} THEN rest
             ELSE << BreakdownRow(CHOOSE c \in cat : TRUE, group, ccIds) >>
                  \o rest

type_order(category_type) ==
    CASE category_type = "income" -> 0
      [] category_type = "expense" -> 1
      [] category_type = "transfer" -> 2

\* lines 650-652: by type, then by actual amount descending; rows that
\* compare equal keep their order
SortsBefore(a, b) ==
    \/ type_order(a.category_type) < type_order(b.category_type)
    \/ /\ type_order(a.category_type) = type_order(b.category_type)
       /\ a.actual_amount > b.actual_amount

RECURSIVE SortBreakdown(_)
SortBreakdown(rws) ==
    IF rws = <<>> THEN <<>>
    ELSE LET n == Len(rws)
             x == rws[n]
             s == SortBreakdown(SubSeq(rws, 1, n - 1))
             k == Cardinality({ i \in 1 .. Len(s) : ~SortsBefore(x, s[i]) })
         IN  SubSeq(s, 1, k) \o << x >> \o SubSeq(s, k + 1, Len(s))

\* calculate_category_breakdown that keeps the rows of the CC-payment category
calculate_category_breakdown_KeepPayments(txns, cats, ccIds, ccPay, sd, ed) ==
    IF txns = <<>> THEN Frame(TRUE, <<>>)
    ELSE
        LET df == DateFilter(txns, sd, ed)
            results == BreakdownResults(CategoryIdOrder, df, cats, ccIds)
        IN  IF results = <<>> THEN Frame(FALSE, <<>>)
            ELSE Frame(TRUE, SortBreakdown(results))

\* calculate_category_breakdown, lines 586-654
calculate_category_breakdown(txns, cats, ccIds, ccPay, sd, ed) ==
    IF txns = <<>> THEN Frame(TRUE, <<>>)
    ELSE
        LET NotPayment(t) == ~is_cc_payment(t, ccPay)
            df == SelectSeq(DateFilter(txns, sd, ed), NotPayment)
            results == BreakdownResults(CategoryIdOrder, df, cats, ccIds)
        IN  IF results = <<>> THEN Frame(FALSE, <<>>)
            ELSE Frame(TRUE, SortBreakdown(results))

\* the outcome of a call: the frame returned, or the exception raised
Outcome(error, rws) == [error |-> error, rows |-> rws]

\* lines 694-703: the synthetic row of the payments made to credit cards
CcPaymentRow(cc_payments) ==
    [category_id |-> "cc_payments", category_name |-> "Credit Card Payments",
     category_type |-> "expense", actual_amount |-> cc_payments,
     cc_amount |-> 0, cash_amount |-> cc_payments]

\* get_expense_breakdown, lines 672-705, with include_cc_payments left at its
\* default; selecting the column of a frame without columns raises KeyError
get_expense_breakdown(txns, cats, ccIds, ccPay, sd, ed) ==
    LET frame == calculate_category_breakdown(txns, cats, ccIds, ccPay, sd, ed)
        IsExpense(r) == r.category_type = "expense"
        expenses_ == SelectSeq(frame.rows, IsExpense)
        cc_payments_ ==
            Abs(FSum(Amounts(CcPaymentRows(DateFilter(txns, sd, ed),
                                           ccIds, ccPay))))
    IN  IF ~frame.columns THEN Outcome({"KeyError"}, <<>>)
        ELSE IF txns # <<>> /\ cc_payments_ > 0
        THEN Outcome({}, Append(expenses_, CcPaymentRow(cc_payments_)))
        ELSE Outcome({}, expenses_)

\* BudgetDisplay._format_currency (budget_display.py, lines 23-27): two
\* decimals, so the amount to the cent
_format_currency(amount) ==
    [negative |-> amount < 0, dollars |-> Abs(amount) \div Unit,
     cents |-> Abs(amount) % Unit]

\* a cell that shows '-' unless the amount is positive
DashCell(amount) == IF amount > 0 THEN {_format_currency(amount)} ELSE {}

TableRow(category, actual, cc, cash) ==
    [category |-> category, actual |-> actual, cc |-> cc, cash |-> cash]

ColumnOf(rws, column) == [i \in 1 .. Len(rws) |-> rws[i][column]]

\* display_expense_table (budget_display.py, lines 128-186): the rows added
\* to the table, the TOTAL row last; nothing is added for an empty frame
display_expense_table(expense_df) ==
    IF expense_df = <<>> THEN <<>>
    ELSE
        LET total_actual == FSum(ColumnOf(expense_df, "actual_amount"))
            total_cc == FSum(ColumnOf(expense_df, "cc_amount"))
            total_cash == FSum(ColumnOf(expense_df, "cash_amount"))
        IN  [i \in 1 .. Len(expense_df) |->
                TableRow(expense_df[i].category_name,
                         _format_currency(expense_df[i].actual_amount),
                         DashCell(expense_df[i].cc_amount),
                         DashCell(expense_df[i].cash_amount))]
            \o << TableRow("TOTAL", _format_currency(total_actual),
                           {_format_currency(total_cc)},
                           {_format_currency(total_cash)}) >>

\* the analyzer as run_cash_budget builds it (cash_budget.py, line 174),
\* before __init__ has derived its fields
BreakdownInitial ==
    /\ transactions \in BreakdownInputs
    /\ accounts \in AccountLists
    /\ categories \in CategoryMaps
    /\ \E d \in DateArgs : start_date = d[1] /\ end_date = d[2]
    /\ cc_account_ids = {}
    /\ cc_payment_category_id = None
    /\ metrics = None
    /\ tlm = None
    /\ apc = "fetch"
    /\ PayoffIdle
    /\ RunIdle
    /\ RestIdle

\* CashBudgetAnalyzer.calculate_category_breakdown
CalculateCategoryBreakdown ==
    /\ apc = "done"
    /\ breakdown' = calculate_category_breakdown(transactions, categories,
                        cc_account_ids, cc_payment_category_id, start_date,
                        end_date)
    /\ apc' = "breakdown"
    /\ UNCHANGED <<transactions, accounts, categories, cc_account_ids,
                   cc_payment_category_id, start_date, end_date, metrics,
                   tlm, expenses, expense_table>>
    /\ UNCHANGED <<payoffVars, runVars, lookupVars, clientVars>>

\* CashBudgetAnalyzer.get_expense_breakdown
GetExpenseBreakdown ==
    /\ apc = "breakdown"
    /\ expenses' = get_expense_breakdown(transactions, categories,
                       cc_account_ids, cc_payment_category_id, start_date,
                       end_date)
    /\ apc' = "expenses"
    /\ UNCHANGED <<transactions, accounts, categories, cc_account_ids,
                   cc_payment_category_id, start_date, end_date, metrics,
                   tlm, breakdown, expense_table>>
    /\ UNCHANGED <<payoffVars, runVars, lookupVars, clientVars>>

\* BudgetDisplay.display_expense_table on the frame get_expense_breakdown
\* returned (cash_budget.py, lines 177-180); not reached when it raised
DisplayExpenseTable ==
    /\ apc = "expenses"
    /\ expenses.error = {}
    /\ expense_table' = display_expense_table(expenses.rows)
    /\ apc' = "displayed"
    /\ UNCHANGED <<transactions, accounts, categories, cc_account_ids,
                   cc_payment_category_id, start_date, end_date, metrics,
                   tlm, breakdown, expenses>>
    /\ UNCHANGED <<payoffVars, runVars, lookupVars, clientVars>>

BreakdownNext ==
    \/ AnalyzerInit
    \/ CalculateTopLevelMetrics
    \/ CalculateCategoryBreakdown
    \/ GetExpenseBreakdown
    \/ DisplayExpenseTable

SpecBreakdown == BreakdownInitial /\ [][BreakdownNext]_vars

(***************************************************************************)
(* Budget-line lookups (monarch_budgeting/utils.py, lines 148-169, and     *)
(* debt_payoff.py, lines 525-541).  A name is the sequence of its          *)
(* characters, so that lower-casing is a conversion of the name.           *)
(***************************************************************************)
\* str.lower() on one character
LowerChar(c) ==
    CASE c = "L" -> "l"
      [] c = "O" -> "o"
      [] c = "A" -> "a"
      [] c = "N" -> "n"
      [] c = "S" -> "s"
      [] c = "C" -> "c"
      [] c = "R" -> "r"
      [] OTHER -> c

\* str.lower()
lower(name) == [i \in 1 .. Len(name) |-> LowerChar(name[i])]

\* the names the callers ask for
RequestedNames ==
    { << "l", "o", "a", "n" >>, << "L", "o", "a", "n" >>,
      << "C", "A", "R" >>, << "l", "o" >> }

\* an entry of 'expense_categories' or 'income_categories'; amount is {} when
\* the entry has no 'amount', the name is empty when it has no 'name'
CustomCat(name, amount) == [name |-> name, amount |-> amount]

CustomCats ==
    { CustomCat(<< "L", "o", "a", "n" >>, {250 * Unit}),
      CustomCat(<< "L", "O", "A", "N" >>, {100 * Unit}),
      CustomCat(<< "L", "o", "a", "n", "s" >>, {75 * Unit}),
      CustomCat(<< "C", "a", "r" >>, {}),
      CustomCat(<< >>, {50 * Unit}) }

\* an entry of 'monthlyAmountsByCategory': the category name and the planned
\* amounts of the months asked for, {} where 'plannedCashFlowAmount' is absent
CatData(name, monthlyAmounts) ==
    [category |-> [name |-> name], monthlyAmounts |-> monthlyAmounts]

CatDatas ==
    { CatData(<< "L", "o", "a", "n" >>, << {250 * Unit} >>),
      CatData(<< "L", "O", "A", "N" >>, << {100 * Unit}, {120 * Unit} >>),
      CatData(<< "L", "o", "a", "n", "s" >>, << {75 * Unit} >>),
      CatData(<< "C", "a", "r" >>, << {} >>),
      CatData(<< >>, << {50 * Unit} >>) }

ListsOf(S) == UNION { [1 .. n -> S] : n \in 0 .. MaxCats }

\* dict.get(key, 0) on an optional value
GetOrZero(value) == IF value = {} THEN 0 ELSE CHOOSE v \in value : TRUE

\* FirstMatch that takes a name starting with the wanted name for a match
RECURSIVE FirstMatch_Prefix(_, _)
FirstMatch_Prefix(cats, wanted) ==
    IF cats = <<>> THEN {}
    ELSE IF /\ Len(Head(cats).name) >= Len(wanted)
            /\ SubSeq(lower(Head(cats).name), 1, Len(wanted)) = lower(wanted)
         THEN {Head(cats)}
    ELSE FirstMatch_Prefix(Tail(cats), wanted)

\* the first entry of cats whose lower-cased name is the lower-cased wanted
\* name, as a set: empty when there is none
RECURSIVE FirstMatch(_, _)
FirstMatch(cats, wanted) ==
    IF cats = <<>> THEN {}
    ELSE IF lower(Head(cats).name) = lower(wanted) THEN {Head(cats)}
    ELSE FirstMatch(Tail(cats), wanted)

\* get_custom_budget_category_amount (utils.py, lines 148-169)
get_custom_budget_category_amount(b, wanted) ==
    LET expense == FirstMatch(b.expense_categories, wanted)
        income == FirstMatch(b.income_categories, wanted)
    IN  IF expense # {} THEN GetOrZero((CHOOSE c \in expense : TRUE).amount)
        ELSE IF income # {}
        THEN GetOrZero((CHOOSE c \in income : TRUE).amount)
        ELSE 0

\* the entries of budget_data seen through their category name
ByCategoryName(data) ==
    [i \in 1 .. Len(data) |->
        [name |-> data[i].category.name,
         monthlyAmounts |-> data[i].monthlyAmounts]]

\* get_budget_category_amount (debt_payoff.py, lines 525-541)
get_budget_category_amount(data, wanted) ==
    LET found == FirstMatch(ByCategoryName(data), wanted)
    IN  IF found # {}
        THEN GetOrZero((CHOOSE c \in found : TRUE).monthlyAmounts[1])
        ELSE 0

LookupInitial ==
    /\ \/ /\ lpc = "custom"
          /\ \E e \in ListsOf(CustomCats), i \in ListsOf(CustomCats) :
                 budget = [expense_categories |-> e, income_categories |-> i]
          /\ budget_data = <<>>
       \/ /\ lpc = "api"
          /\ budget = [expense_categories |-> <<>>, income_categories |-> <<>>]
          /\ budget_data \in ListsOf(CatDatas)
    /\ requested_name \in RequestedNames
    /\ amount_found = None
    /\ PayoffIdle
    /\ AnalyzerIdle
    /\ RunIdle
    /\ BreakdownIdle
    /\ ClientIdle

GetCustomBudgetCategoryAmount ==
    /\ lpc = "custom"
    /\ amount_found' =
           get_custom_budget_category_amount(budget, requested_name)
    /\ lpc' = "returned custom"
    /\ UNCHANGED <<budget, budget_data, requested_name>>
    /\ UNCHANGED <<payoffVars, analyzerVars, runVars, breakdownVars,
                   clientVars>>

GetBudgetCategoryAmount ==
    /\ lpc = "api"
    /\ amount_found' = get_budget_category_amount(budget_data, requested_name)
    /\ lpc' = "returned api"
    /\ UNCHANGED <<budget, budget_data, requested_name>>
    /\ UNCHANGED <<payoffVars, analyzerVars, runVars, breakdownVars,
                   clientVars>>

LookupNext == GetCustomBudgetCategoryAmount \/ GetBudgetCategoryAmount

SpecLookup == LookupInitial /\ [][LookupNext]_vars

(***************************************************************************)
(* MonarchClient (monarch_budgeting/client.py).  The MonarchMoney library  *)
(* and the remote API are the environment: their replies are chosen        *)
(* freely.  A MonarchMoney instance is known by its number; logged_in      *)
(* holds the instances that completed a login.                             *)
(***************************************************************************)
DataOperations ==
    { "get_accounts", "get_transactions", "get_budgets",
      "get_transaction_categories", "get_aggregate_snapshots",
      "get_account_history" }

\* what an awaited call comes back with: type is "returned" or the class of
\* the exception raised, has401 tells whether str(e) contains '401'
Reply(type, has401) == [type |-> type, has401 |-> has401]

ApiReplies ==
    { Reply("returned", FALSE),
      Reply("TransportServerError", TRUE),
      Reply("TransportServerError", FALSE),
      Reply("TransportQueryError", TRUE),
      Reply("TransportQueryError", FALSE) }

\* the replies of MonarchMoney.login to a login with credentials: it cannot
\* succeed without them
LoginReplies(email, password) ==
    IF email = None \/ password = None
    THEN {"LoginFailedException", "RequireMFAException"}
    ELSE {"returned", "LoginFailedException", "RequireMFAException"}

\* the replies of MonarchMoney.login(use_saved_session=True)
SessionReplies == {"returned", "LoginFailedException"}

\* the replies of MonarchMoney.multi_factor_authenticate
MfaReplies == {"returned", "LoginFailedException"}

\* _do_login, lines 25-44: "returned", or the exception that leaves it
_do_login(email, password, prompt_for_mfa, reply, mfa_reply) ==
    IF reply # "RequireMFAException" THEN reply
    ELSE IF ~prompt_for_mfa THEN "RequireMFAException"
    ELSE IF email = None \/ password = None THEN "ValueError"
    ELSE mfa_reply

\* a completed operation: its name, how it ended, the remote invocations it
\* made and the flag _authenticated it left
Entry(op, ended, invs, authenticated) ==
    [op |-> op, ended |-> ended, invocations |-> invs,
     authenticated |-> authenticated]

Invocation(instance, reply) == [instance |-> instance, reply |-> reply]

\* MonarchClient.__init__, lines 18-23
ClientInitial ==
    /\ _authenticated = FALSE
    /\ _email = None
    /\ _password = None
    /\ mm = 0
    /\ logged_in = {}
    /\ cpc = "ready"
    /\ api_func = None
    /\ invocations = <<>>
    /\ ensured = FALSE
    /\ log = <<>>
    /\ PayoffIdle
    /\ AnalyzerIdle
    /\ RunIdle
    /\ BreakdownIdle
    /\ LookupIdle

\* MonarchClient.login, lines 46-82; email and password stand for the
\* argument or, failing it, the environment variable
Login ==
    /\ cpc = "ready"
    /\ Len(log) < MaxOps
    /\ \E email \in {None, "email"}, password \in {None, "password"},
          use_saved_session \in BOOLEAN, prompt_for_mfa \in BOOLEAN,
          session_reply \in SessionReplies, mfa_reply \in MfaReplies :
         \E reply \in LoginReplies(email, password) :
            LET ended ==
                    IF use_saved_session /\ session_reply = "returned"
                    THEN "returned"
                    ELSE _do_login(email, password, prompt_for_mfa, reply,
                                   mfa_reply)
                authenticated ==
                    IF ended = "returned" THEN TRUE ELSE _authenticated
            IN  /\ _email' = email
                /\ _password' = password
                /\ _authenticated' = authenticated
                /\ logged_in' = IF ended = "returned"
                                THEN logged_in \cup {mm} ELSE logged_in
                /\ log' = Append(log, Entry("login", ended, <<>>,
                                            authenticated))
    /\ UNCHANGED <<mm, cpc, api_func, invocations, ensured>>
    /\ UNCHANGED <<payoffVars, analyzerVars, runVars, breakdownVars,
                   lookupVars>>

\* a data operation without the test of _authenticated
CallDataOperation_NoGuard ==
    /\ cpc = "ready"
    /\ Len(log) < MaxOps
    /\ \E op \in DataOperations :
           /\ cpc' = "first"
           /\ api_func' = [op |-> op, instance |-> mm]
           /\ invocations' = <<>>
           /\ ensured' = FALSE
           /\ UNCHANGED log
    /\ UNCHANGED <<_authenticated, _email, _password, mm, logged_in>>
    /\ UNCHANGED <<payoffVars, analyzerVars, runVars, breakdownVars,
                   lookupVars>>

\* the start of a data operation (get_accounts, lines 105-109, and the five
\* others alike): the test of _authenticated, then the bound method handed to
\* _api_call_with_retry
CallDataOperation ==
    /\ cpc = "ready"
    /\ Len(log) < MaxOps
    /\ \E op \in DataOperations :
           IF ~_authenticated
           THEN /\ log' = Append(log, Entry(op, "RuntimeError", <<>>,
                                            _authenticated))
                /\ UNCHANGED <<cpc, api_func, invocations, ensured>>
           ELSE /\ cpc' = "first"
                /\ api_func' = [op |-> op, instance |-> mm]
                /\ invocations' = <<>>
                /\ ensured' = FALSE
                /\ UNCHANGED log
    /\ UNCHANGED <<_authenticated, _email, _password, mm, logged_in>>
    /\ UNCHANGED <<payoffVars, analyzerVars, runVars, breakdownVars,
                   lookupVars>>

\* FirstAttempt that goes on to re-authenticate after any transport error
FirstAttempt_RetryAll ==
    /\ cpc = "first"
    /\ \E reply \in ApiReplies :
           LET invs == Append(invocations,
                              Invocation(api_func.instance, reply))
           IN  /\ invocations' = invs
               /\ IF reply.type = "TransportServerError"
                  THEN cpc' = "ensure" /\ UNCHANGED log
                  ELSE /\ cpc' = "ready"
                       /\ log' = Append(log, Entry(api_func.op, reply.type,
                                                   invs, _authenticated))
    /\ UNCHANGED <<_authenticated, _email, _password, mm, logged_in,
                   api_func, ensured>>
    /\ UNCHANGED <<payoffVars, analyzerVars, runVars, breakdownVars,
                   lookupVars>>

\* _api_call_with_retry, lines 97-103: the first await of api_func
FirstAttempt ==
    /\ cpc = "first"
    /\ \E reply \in ApiReplies :
           LET invs == Append(invocations,
                              Invocation(api_func.instance, reply))
           IN  /\ invocations' = invs
               /\ IF reply.type = "TransportServerError" /\ reply.has401
                  THEN cpc' = "ensure" /\ UNCHANGED log
                  ELSE /\ cpc' = "ready"
                       /\ log' = Append(log, Entry(api_func.op, reply.type,
                                                   invs, _authenticated))
    /\ UNCHANGED <<_authenticated, _email, _password, mm, logged_in,
                   api_func, ensured>>
    /\ UNCHANGED <<payoffVars, analyzerVars, runVars, breakdownVars,
                   lookupVars>>

\* _ensure_authenticated, lines 84-92, awaited at line 101
EnsureAuthenticated ==
    /\ cpc = "ensure"
    /\ IF _email # None /\ _password # None
       THEN \E reply \in LoginReplies(_email, _password),
               mfa_reply \in MfaReplies :
                LET ended == _do_login(_email, _password, TRUE, reply,
                                       mfa_reply)
                IN  /\ mm' = mm + 1
                    /\ IF ended = "returned"
                       THEN /\ logged_in' = logged_in \cup {mm + 1}
                            /\ _authenticated' = TRUE
                            /\ ensured' = TRUE
                            /\ cpc' = "second"
                            /\ UNCHANGED log
                       ELSE /\ cpc' = "ready"
                            /\ log' = Append(log, Entry(api_func.op, ended,
                                                 invocations, _authenticated))
                            /\ UNCHANGED <<logged_in, _authenticated, ensured>>
       ELSE /\ ensured' = TRUE
            /\ cpc' = "second"
            /\ UNCHANGED <<mm, logged_in, _authenticated, log>>
    /\ UNCHANGED <<_email, _password, api_func, invocations>>
    /\ UNCHANGED <<payoffVars, analyzerVars, runVars, breakdownVars,
                   lookupVars>>

\* _api_call_with_retry, line 102: the second await of the same api_func
SecondAttempt ==
    /\ cpc = "second"
    /\ \E reply \in ApiReplies :
           LET invs == Append(invocations,
                              Invocation(api_func.instance, reply))
           IN  /\ invocations' = invs
               /\ log' = Append(log, Entry(api_func.op, reply.type, invs,
                                           _authenticated))
    /\ cpc' = "ready"
    /\ UNCHANGED <<_authenticated, _email, _password, mm, logged_in,
                   api_func, ensured>>
    /\ UNCHANGED <<payoffVars, analyzerVars, runVars, breakdownVars,
                   lookupVars>>

ClientNext ==
    \/ Login
    \/ CallDataOperation
    \/ FirstAttempt
    \/ EnsureAuthenticated
    \/ SecondAttempt

SpecClient == ClientInitial /\ [][ClientNext]_vars

Spec ==
    /\ \/ PayoffInit
       \/ AnalyzerInitial
       \/ RunInitial
       \/ BreakdownInitial
       \/ LookupInitial
       \/ ClientInitial
    /\ [][\/ PayoffNext
          \/ AnalyzerNext
          \/ RunNext
          \/ BreakdownNext
          \/ LookupNext
          \/ ClientNext]_vars

(***************************************************************************)
(* Claims about calculate_top_level_metrics.                               *)
(***************************************************************************)
Returned == apc \in {"done", "built"}

\* the metrics the analyzer would return for the transaction list txns
MetricsOf(txns) ==
    calculate_top_level_metrics(txns, cc_account_ids, cc_payment_category_id,
                                start_date, end_date)

InPeriod(t) == DateFilter(<<t>>, start_date, end_date) # <<>>

IsCcAccount(t) == is_cc_account(t, cc_account_ids)

IsCcPayment(t) == is_cc_payment(t, cc_payment_category_id)

Front(seq) == SubSeq(seq, 1, Len(seq) - 1)

Last(seq) == seq[Len(seq)]

\* C1: total_expenses = cc_expenses + cash_expenses exactly, in the dict
\* returned by calculate_top_level_metrics (empty input included) and in the
\* TopLevelMetrics built by TopLevelMetrics.calculate.
C1_ExpensesSplitExactly ==
    /\ Returned =>
           metrics.total_expenses =
               FAdd(metrics.cc_expenses, metrics.cash_expenses)
    /\ apc = "built" =>
           tlm.total_expenses = FAdd(tlm.cc_expenses, tlm.cash_expenses)

\* C2: true_cash_remaining = total_income - cash_expenses - cc_payments.  A
\* new credit-card charge leaves total_income and cc_payments as they were
\* and enters total_expenses and cc_expenses alike, so it reaches the
\* remaining cash only through their difference; a CC bill payment from a
\* non-credit account raises cc_payments and lowers the remaining cash.
C2_TrueCashRemaining ==
    Returned =>
        /\ metrics.true_cash_remaining =
               FSub(FSub(metrics.total_income, metrics.cash_expenses),
                    metrics.cc_payments)
        /\ transactions # <<>> =>
               LET t == Last(transactions)
                   prev == MetricsOf(Front(transactions))
                   charge == /\ InPeriod(t) /\ t.amount < 0
                             /\ IsCcAccount(t) /\ ~IsCcPayment(t)
                   billPayment == /\ InPeriod(t) /\ t.amount < 0
                                  /\ ~IsCcAccount(t) /\ IsCcPayment(t)
               IN  /\ charge =>
                          /\ metrics.total_income = prev.total_income
                          /\ metrics.cc_payments = prev.cc_payments
                          /\ metrics.total_expenses =
                                 FAdd(prev.total_expenses, Abs(t.amount))
                          /\ metrics.cc_expenses =
                                 FAdd(prev.cc_expenses, Abs(t.amount))
                   /\ billPayment =>
                          /\ metrics.total_income = prev.total_income
                          /\ metrics.cash_expenses = prev.cash_expenses
                          /\ metrics.cc_payments =
                                 FAdd(prev.cc_payments, Abs(t.amount))
                          /\ metrics.true_cash_remaining
                                 <= prev.true_cash_remaining

C2_Witness ==
    /\ apc = "done"
    /\ Len(transactions) = 3
    /\ transactions[1] = Salary
    /\ transactions[2] = CardPaymentOut
    /\ transactions[3] = GroceriesOnCard
    /\ IsCcAccount(transactions[3])
    /\ IsCcPayment(transactions[2])
    /\ metrics.true_cash_remaining = 4200 * Unit

\* the last two transactions are the two legs of one credit-card payment
EndsWithPaymentPair ==
    /\ Len(transactions) >= 2
    /\ LET a == transactions[Len(transactions) - 1]
           b == Last(transactions)
           Pair(out, in) == /\ out.amount < 0 /\ in.amount = 0 - out.amount
                            /\ ~IsCcAccount(out) /\ IsCcAccount(in)
       IN  /\ IsCcPayment(a) /\ IsCcPayment(b)
           /\ InPeriod(a) /\ InPeriod(b)
           /\ Pair(a, b) \/ Pair(b, a)

\* C3: a credit-card payment recorded as -X on a non-credit account and +X
\* on a credit account, both in the CC-payment category, added to a
\* transaction list raises cc_payments by X once and leaves total_expenses,
\* cc_expenses and total_income unchanged.
C3_PaymentPairCountedOnce ==
    (Returned /\ EndsWithPaymentPair) =>
        LET prev == MetricsOf(SubSeq(transactions, 1, Len(transactions) - 2))
            X == Abs(Last(transactions).amount)
        IN  /\ metrics.cc_payments = FAdd(prev.cc_payments, X)
            /\ metrics.total_expenses = prev.total_expenses
            /\ metrics.cc_expenses = prev.cc_expenses
            /\ metrics.total_income = prev.total_income

C3_Witness ==
    /\ apc = "done"
    /\ EndsWithPaymentPair
    /\ Len(transactions) = 3
    /\ transactions[1] = CardPaymentOut
    /\ metrics.cc_payments = 1600 * Unit
    /\ metrics.total_expenses = 0

NoCreditAccount == \A i \in 1 .. Len(accounts) : accounts[i].type # "credit"

\* the negative-amount transactions of the period in the CC-payment category
PaymentOutflows ==
    LET Keep(t) == InPeriod(t) /\ IsCcPayment(t) /\ t.amount < 0
    IN  SelectSeq(transactions, Keep)

\* C4 as stated: with no account of type credit, cc_expenses = 0 and
\* cc_payments = 0.
C4_Original ==
    (Returned /\ NoCreditAccount) =>
        /\ metrics.cc_expenses = 0
        /\ metrics.cc_payments = 0

\* C4 (amended): with no account of type credit, cc_expenses = 0 and
\* cc_payments is the total of the negative-amount transactions in the
\* CC-payment category, which is 0 only when there is none.
C4_NoCreditAccount ==
    (Returned /\ NoCreditAccount) =>
        /\ metrics.cc_expenses = 0
        /\ metrics.cc_payments = Abs(FSum(Amounts(PaymentOutflows)))
        /\ metrics.cc_payments = 0 <=> PaymentOutflows = <<>>

C4_Witness ==
    /\ apc = "done"
    /\ NoCreditAccount
    /\ metrics.cc_payments = 800 * Unit
    /\ metrics.cc_expenses = 0
    /\ \E i \in 1 .. Len(transactions) :
           /\ transactions[i].account_id = "card"
           /\ transactions[i].amount < 0
           /\ ~IsCcPayment(transactions[i])
           /\ InPeriod(transactions[i])

\* the transactions whose category name is not in the excluded set
WithoutExcluded ==
    LET Keep(t) == ~_is_excluded_category(t.category_name)
    IN  SelectSeq(transactions, Keep)

\* C5: a transaction in an excluded category contributes to neither
\* total_income nor total_expenses, whatever the sign of its amount: the two
\* totals are those of the list without these transactions.
C5_ExcludedContributesNothing ==
    Returned =>
        /\ metrics.total_income = MetricsOf(WithoutExcluded).total_income
        /\ metrics.total_expenses = MetricsOf(WithoutExcluded).total_expenses

\* the excluded categories never count as income
C5_ExcludedFromIncome ==
    Returned =>
        metrics.total_income = MetricsOf(WithoutExcluded).total_income

FixtureInput ==
    /\ transactions = Fixture
    /\ \E i \in 1 .. Len(accounts) : accounts[i] = Acct("card", "credit")
    /\ \E i \in 1 .. Len(categories) : Category_is_cc_payment(categories[i])

\* C6 as stated: the fixture gives total_income 5000, total_expenses 1500,
\* cc_expenses 300, cash_expenses 1200, cc_payments 800 and
\* true_cash_remaining 3000.
C6_Original ==
    (Returned /\ FixtureInput) =>
        metrics = MetricsDict(5000 * Unit, 1500 * Unit, 300 * Unit,
                              1200 * Unit, 800 * Unit, 3000 * Unit)

\* C6 (amended): the fixture gives total_income 5000, total_expenses 1800,
\* cc_expenses 300, cash_expenses 1500, cc_payments 800 and
\* true_cash_remaining 2700.
C6_Fixture ==
    (Returned /\ FixtureInput) =>
        metrics = MetricsDict(5000 * Unit, 1800 * Unit, 300 * Unit,
                              1500 * Unit, 800 * Unit, 2700 * Unit)

C6_Witness ==
    /\ apc = "done"
    /\ FixtureInput
    /\ metrics.total_expenses = 1800 * Unit
    /\ metrics.true_cash_remaining = 2700 * Unit

(***************************************************************************)
(* Claims about the degenerate inputs and the shape of the timeline.       *)
(***************************************************************************)
\* C11: for total_debt <= 0 the projection reports payoff at month 0 with
\* zero interest and without entering the loop: months = 0,
\* total_interest = 0, total_paid = 0 and the timeline holds only the
\* month-0 entry
C11_ZeroDebtShortCircuit ==
    (pc = "done" /\ total_debt <= 0) =>
        /\ result.months = 0
        /\ result.total_interest = 0
        /\ result.total_paid = 0
        /\ result.timeline = << <<0, total_debt>> >>

\* the loop has run out of months with the balance still above 0
HorizonOverrun == pc = "done" /\ month >= max_months /\ balance > 0

\* C12 as stated: when the balance is still > 0 after max_months iterations
\* the result has paid_off = false and months = max_months, and for every
\* input months <= max_months.
C12_Original ==
    /\ HorizonOverrun => (~result.paid_off /\ result.months = max_months)
    /\ pc = "done" => result.months <= max_months

\* C12 (amended): for max_months >= 0, when the balance is still > 0 after
\* max_months iterations the result has paid_off = false and
\* months = max_months, and months <= max_months for every such input.
C12_HorizonOverrun ==
    max_months >= 0 =>
        /\ HorizonOverrun => (~result.paid_off /\ result.months = max_months)
        /\ pc = "done" => result.months <= max_months

\* the scenario of the claim scaled by 1/100: the debt grows for 240 months
C12_Witness ==
    /\ HorizonOverrun
    /\ total_debt = 1000 * Unit
    /\ monthly_payment = Unit
    /\ annual_interest_rate = 24
    /\ max_months = DefaultMaxMonths
    /\ result.months = DefaultMaxMonths
    /\ ~result.paid_off
    /\ balance > total_debt

\* C13: for every input with max_months >= 0 the returned timeline starts
\* with (0, total_debt), its month indices are 0, 1, 2, ... without a gap,
\* months = len(timeline) - 1, paid_off holds iff the last balance is <= 0,
\* and no entry follows the first entry of a month >= 1 whose balance is <= 0
C13_TimelineShape ==
    (pc = "done" /\ max_months >= 0) =>
        LET tl == result.timeline
        IN  /\ Len(tl) >= 1
            /\ tl[1] = <<0, total_debt>>
            /\ \A k \in 1 .. Len(tl) : tl[k][1] = k - 1
            /\ result.months = Len(tl) - 1
            /\ result.paid_off <=> (tl[Len(tl)][2] <= 0)
            /\ \A k \in 2 .. Len(tl) : tl[k][2] <= 0 => k = Len(tl)

\* a debt paid off in the third month: four entries, only the last at 0
C13_Witness ==
    /\ pc = "done"
    /\ max_months >= 0
    /\ total_debt > 0
    /\ Len(result.timeline) = 4
    /\ result.timeline[3][2] > 0
    /\ result.timeline[4][2] <= 0
    /\ result.paid_off

(***************************************************************************)
(* Claims about the runs: the checks, the table and the plot.              *)
(***************************************************************************)
\* a row of the table that reports a debt as not paid off within the horizon
RowNotWithinHorizon(row) ==
    IF debt_type = "both"
    THEN row.cc_payoff.text = "10+ yrs" \/ row.loan_payoff.text = "20+ yrs"
    ELSE ~row.payoff_date.within

\* C14: a scenario not paid off within the horizon carries no interest
\* figure: its row of display_summary or display_combined_summary shows no
\* amount as Total Interest, so a combined row with one debt unpaid never
\* shows the other debt's interest alone as the total
C14_UnpaidCarriesNoInterest ==
    \A i \in 1 .. Len(rows) :
        RowNotWithinHorizon(rows[i]) => rows[i].total_interest = NA

\* the message msg has been printed
Printed(msg) == \E i \in 1 .. Len(console) : console[i] = msg

\* C15: when monthly_surplus <= 0 the run (cc, loan or combined) ends in the
\* 'no surplus available' state, whatever the debt and the base payment:
\* project_payoff is never called and no table and no plot is produced
C15_NoSurplusNoProjection ==
    monthly_surplus <= 0 =>
        /\ rpc \in {"checks", "returned"}
        /\ rpc = "returned" => Printed("no surplus")
        /\ calls = <<>>
        /\ rows = <<>>
        /\ plot_lines = <<>>
        /\ ~Printed("table")
        /\ ~Printed("plot saved")

\* a run with debt and a positive base payment that ends for want of surplus
C15_Witness ==
    /\ rpc = "returned"
    /\ monthly_surplus <= 0
    /\ TotalDebt > 0
    /\ base_payment > 0
    /\ Printed("no surplus")
    /\ calls = <<>>

\* C16: no payoff scenario is simulated with a non-positive payment: in every
\* run, single-debt or combined, every call of project_payoff receives
\* monthly_payment > 0
C16_PositivePayments ==
    \A i \in 1 .. Len(calls) : calls[i].monthly_payment > 0

\* C17 as stated: whenever the total debt is <= 0 the run reports the
\* 'no debt to pay off' state and never calls project_payoff, for every
\* monthly_surplus, monthly_surplus <= 0 included.
C17_Original ==
    TotalDebt <= 0 =>
        /\ calls = <<>>
        /\ rpc = "returned" => Printed("no debt")

\* C17 (amended): whenever the total debt is <= 0 the run never calls
\* project_payoff and produces no table, for every monthly_surplus; it
\* reports the 'no debt to pay off' state when monthly_surplus > 0 and the
\* 'no surplus available' state when monthly_surplus <= 0.
C17_NoDebtNoProjection ==
    TotalDebt <= 0 =>
        /\ rpc \in {"checks", "returned"}
        /\ calls = <<>>
        /\ rows = <<>>
        /\ plot_lines = <<>>
        /\ rpc = "returned" =>
              IF monthly_surplus > 0
              THEN console = <<"no debt">>
              ELSE Printed("no surplus") /\ ~Printed("no debt")

C17_Witness ==
    /\ rpc = "returned"
    /\ TotalDebt <= 0
    /\ monthly_surplus > 0
    /\ console = <<"no debt">>
    /\ calls = <<>>

\* the projection of one scenario of a single-debt sweep, evaluated alone
ScenarioAlone(pct) ==
    project_payoff(TotalDebt, FAdd(base_payment, FMul(monthly_surplus, pct)),
                   annual_rate, DefaultMaxMonths)

\* the row of the table shows the figures of the projection f
RowShows(row, f) ==
    IF f.paid_off
    THEN /\ row.payoff_date = [within |-> TRUE, n |-> f.months]
         /\ row.months = [n |-> f.months, plus |-> FALSE]
         /\ row.total_interest = AmountCell(f.total_interest)
    ELSE /\ ~row.payoff_date.within
         /\ row.months.plus
         /\ row.total_interest = NA

\* the payoff cell of a combined row shows the projection made with the
\* arguments (debt, pay, rate) alone, or that none was made or paid off
PayoffCellShows(cell, debt, pay, rate, called) ==
    IF called
    THEN \A f \in {project_payoff(debt, pay, rate, DefaultMaxMonths)} :
             IF f.paid_off THEN cell = [text |-> "date", n |-> f.months]
             ELSE cell.text \in {"10+ yrs", "20+ yrs"}
    ELSE cell.text \in {"No debt", "10+ yrs", "20+ yrs"}

\* C18: in a sweep each scenario's result is that of
\* project_payoff(total_debt, base_payment + monthly_surplus * pct,
\* annual_rate) evaluated alone, whatever the other percentages and their
\* order; in combined mode the card projection depends only on (cc_debt,
\* cc_rate, surplus * cc_pct) and the loan projection only on (loan_debt,
\* loan_rate, loan_base_payment + surplus * loan_pct); stated of the table
\* and the plot of a finished run
C18_ScenariosIndependent ==
    rpc = "returned" =>
    IF debt_type = "both"
    THEN \A i \in 1 .. Len(rows) :
            LET cc_payment == FMul(monthly_surplus, rows[i].cc_pct)
                loan_payment == FAdd(base_payment,
                                     FMul(monthly_surplus, rows[i].loan_pct))
            IN  /\ rows[i].cc_pct = CombinedScenarios[i][1]
                /\ rows[i].loan_pct = CombinedScenarios[i][2]
                /\ PayoffCellShows(rows[i].cc_payoff, cc_debt, cc_payment,
                                   cc_rate, cc_debt > 0 /\ cc_payment > 0)
                /\ PayoffCellShows(rows[i].loan_payoff, loan_debt,
                                   loan_payment, loan_rate, loan_debt > 0)
    ELSE /\ \A i \in 1 .. Len(rows) :
               /\ rows[i].allocation = payoff_percentages[i]
               /\ \A f \in {ScenarioAlone(payoff_percentages[i])} :
                      RowShows(rows[i], f)
         /\ \A i \in 1 .. Len(plot_lines) :
               \A f \in {ScenarioAlone(payoff_percentages[i])} :
                   /\ plot_lines[i].label = payoff_percentages[i]
                   /\ plot_lines[i].points = f.months + 1
                   /\ plot_lines[i].last_balance = f.balance

\* a finished sweep of two different percentages, the larger one first, both
\* paid off and after different numbers of months
C18_Witness ==
    /\ rpc = "returned"
    /\ debt_type # "both"
    /\ Len(rows) = 2
    /\ Len(plot_lines) = 2
    /\ rows[1].allocation > rows[2].allocation
    /\ rows[1].payoff_date.within
    /\ rows[2].payoff_date.within
    /\ rows[1].months.n < rows[2].months.n

(***************************************************************************)
(* Claims about the signs of the metrics and the missing CC-payment        *)
(* category.                                                               *)
(***************************************************************************)
\* C19: for every transaction set, total_income, total_expenses,
\* cc_expenses, cash_expenses and cc_payments returned by
\* calculate_top_level_metrics are all >= 0; true_cash_remaining is the only
\* figure that may be negative
C19_NonNegativeMetrics ==
    Returned =>
        /\ metrics.total_income >= 0
        /\ metrics.total_expenses >= 0
        /\ metrics.cc_expenses >= 0
        /\ metrics.cash_expenses >= 0
        /\ metrics.cc_payments >= 0

\* expenses on cash and on card and a card payment, without income: the
\* expense figures are positive and the remaining cash is negative
C19_Witness ==
    /\ Returned
    /\ metrics.total_income = 0
    /\ metrics.cc_expenses > 0
    /\ metrics.cash_expenses > 0
    /\ metrics.cc_payments > 0
    /\ metrics.true_cash_remaining < 0

\* no category of the map is flagged as the credit-card payment category
NoFlaggedCategory ==
    \A i \in 1 .. Len(categories) : ~Category_is_cc_payment(categories[i])

\* the transactions of the requested period
PeriodRows == DateFilter(transactions, start_date, end_date)

PositiveNotExcluded(t) ==
    t.amount > 0 /\ t.category_name \notin EXCLUDED_CATEGORIES

Negative(t) == t.amount < 0

\* C20: when no category is flagged is_cc_payment the classifier returns
\* without error with cc_payments = 0 and treats no transaction as a CC
\* payment, a transaction without category included: every positive amount
\* outside the excluded set counts toward total_income and every negative
\* amount toward total_expenses
C20_NoPaymentCategory ==
    (Returned /\ NoFlaggedCategory) =>
        /\ cc_payment_category_id = None
        /\ \A i \in 1 .. Len(transactions) : ~IsCcPayment(transactions[i])
        /\ metrics.cc_payments = 0
        /\ metrics.total_income =
               FSum(Amounts(SelectSeq(PeriodRows, PositiveNotExcluded)))
        /\ metrics.total_expenses =
               Abs(FSum(Amounts(SelectSeq(PeriodRows, Negative))))

\* a transaction without category and one in the unflagged payment category,
\* both counted as expenses
C20_Witness ==
    /\ Returned
    /\ NoFlaggedCategory
    /\ start_date = NoDate
    /\ \E i \in 1 .. Len(transactions) : transactions[i].category_id = None
    /\ \E i \in 1 .. Len(transactions) : transactions[i] = CardPaymentOut
    /\ \E i \in 1 .. Len(transactions) : transactions[i] = Salary
    /\ metrics.total_expenses = 825 * Unit
    /\ metrics.total_income = 5000 * Unit
    /\ metrics.cc_payments = 0


(***************************************************************************)
(* Claims about the category breakdown and the expense table.              *)
(***************************************************************************)
BrokenDown == apc \in {"breakdown", "expenses", "displayed"}

\* the frame calculate_category_breakdown would return for the list txns
BreakdownOf(txns) ==
    calculate_category_breakdown(txns, categories, cc_account_ids,
                                 cc_payment_category_id, start_date, end_date)

\* a transaction without category, or with a category id absent from the map
Uncategorised(t) ==
    t.category_id = None \/ CategoryGet(categories, t.category_id) = {}

Without(seq, i) == SubSeq(seq, 1, i - 1) \o SubSeq(seq, i + 1, Len(seq))

CountedAsIncome(t) ==
    /\ t.amount > 0
    /\ ~IsCcPayment(t)
    /\ t.category_name \notin EXCLUDED_CATEGORIES

CountedAsExpense(t) == t.amount < 0 /\ ~IsCcPayment(t)

\* the transaction at index i is in no row of the breakdown: no row carries
\* its category id and the rows are those of the list without it
InNoRow(i) ==
    /\ \A k \in 1 .. Len(breakdown.rows) :
           breakdown.rows[k].category_id # transactions[i].category_id
    /\ breakdown.rows = BreakdownOf(Without(transactions, i)).rows

\* C21 as stated: every transaction of the period without a known category
\* is in no row of the breakdown, and is one of the amounts summed into
\* total_income when positive, into total_expenses when negative
C21_Original ==
    BrokenDown =>
        \A i \in 1 .. Len(transactions) :
            (Uncategorised(transactions[i]) /\ InPeriod(transactions[i])) =>
                /\ InNoRow(i)
                /\ transactions[i].amount > 0 =>
                       CountedAsIncome(transactions[i])
                /\ transactions[i].amount < 0 =>
                       CountedAsExpense(transactions[i])

\* C21: a transaction of the period with a missing category, or with a
\* category id absent from the category map, is in no row of
\* calculate_category_breakdown; it is one of the amounts summed into
\* total_income when it is positive and its category name is not an excluded
\* one, and one of the amounts summed into total_expenses when it is negative
C21_UncategorisedCounted ==
    BrokenDown =>
        /\ metrics.total_income =
               FSum(Amounts(SelectSeq(PeriodRows, CountedAsIncome)))
        /\ metrics.total_expenses =
               Abs(FSum(Amounts(SelectSeq(PeriodRows, CountedAsExpense))))
        /\ \A i \in 1 .. Len(transactions) :
               (Uncategorised(transactions[i]) /\ InPeriod(transactions[i])) =>
                   /\ InNoRow(i)
                   /\ (/\ transactions[i].amount > 0
                       /\ transactions[i].category_name
                              \notin EXCLUDED_CATEGORIES) =>
                          CountedAsIncome(transactions[i])
                   /\ transactions[i].amount < 0 =>
                          CountedAsExpense(transactions[i])

\* an income without category and an expense of a category absent from the
\* map, both in the totals, next to the one row of the rent
C21_Witness ==
    /\ BrokenDown
    /\ \E i \in 1 .. Len(transactions) :
           /\ transactions[i].category_id = None
           /\ transactions[i].amount = 15 * Unit
    /\ \E i \in 1 .. Len(transactions) : transactions[i].category_id = "old"
    /\ \E i \in 1 .. Len(transactions) : transactions[i] = Rent
    /\ metrics.total_income = 15 * Unit
    /\ metrics.total_expenses = 1530 * Unit
    /\ Len(breakdown.rows) = 1
    /\ breakdown.rows[1].category_id = "rent"

\* the rows of the expense frame that are rows of a category
OwnRows(rws) ==
    LET Own(r) == r.category_id # "cc_payments"
    IN  SelectSeq(rws, Own)

\* C22: the synthetic 'Credit Card Payments' row appended by
\* get_expense_breakdown is in no total: total_expenses is the sum of the
\* expenses outside the CC-payment category, and the TOTAL row of the expense
\* table shows the sums of the category rows alone
C22_SyntheticRowInformational ==
    (apc = "displayed" /\ expense_table # <<>>) =>
        /\ metrics.total_expenses =
               Abs(FSum(Amounts(SelectSeq(PeriodRows, CountedAsExpense))))
        /\ Last(expense_table).category = "TOTAL"
        /\ Last(expense_table).actual =
               _format_currency(FSum(ColumnOf(OwnRows(expenses.rows),
                                              "actual_amount")))
        /\ Last(expense_table).cash =
               {_format_currency(FSum(ColumnOf(OwnRows(expenses.rows),
                                               "cash_amount")))}

\* the transactions of the period in category cat_id, CC payments left out
CategoryGroup(cat_id) ==
    LET InGroup(t) == t.category_id = cat_id /\ ~IsCcPayment(t)
    IN  SelectSeq(PeriodRows, InGroup)

\* the signed sum of a category, and the part of it on credit accounts
SignedSum(cat_id) == FSum(Amounts(CategoryGroup(cat_id)))

SignedCcSum(cat_id) ==
    FSum(Amounts(SelectSeq(CategoryGroup(cat_id), IsCcAccount)))

RowsOf(cat_id) ==
    { k \in 1 .. Len(breakdown.rows) : breakdown.rows[k].category_id = cat_id }

\* C23: calculate_category_breakdown leaves out every transaction of the
\* CC-payment category and emits exactly one row for each known category that
\* has transactions left, and no other row; an expense-type row has
\* actual_amount = |signed sum| and cash_amount = actual_amount - cc_amount,
\* any other row has actual_amount = signed sum, cc_amount = 0 and
\* cash_amount = 0
C23_OneRowPerCategory ==
    BrokenDown =>
        /\ \A k \in 1 .. Len(breakdown.rows) :
               /\ breakdown.rows[k].category_id # cc_payment_category_id
               /\ \E i \in 1 .. Len(categories) :
                      categories[i].id = breakdown.rows[k].category_id
        /\ \A i \in 1 .. Len(categories) :
               LET cat == categories[i]
                   ks == RowsOf(cat.id)
               IN  IF CategoryGroup(cat.id) = <<>> THEN ks = {}
                   ELSE /\ Cardinality(ks) = 1
                        /\ \A k \in ks :
                               LET row == breakdown.rows[k]
                               IN  IF cat.category_type = "expense"
                                   THEN /\ row.actual_amount =
                                               Abs(SignedSum(cat.id))
                                        /\ row.cc_amount =
                                               Abs(SignedCcSum(cat.id))
                                        /\ row.cash_amount =
                                               FSub(row.actual_amount,
                                                    row.cc_amount)
                                   ELSE /\ row.actual_amount =
                                               SignedSum(cat.id)
                                        /\ row.cc_amount = 0
                                        /\ row.cash_amount = 0

\* a card payment left out, next to an income row and to an expense row split
\* between card and cash
C23_Witness ==
    /\ BrokenDown
    /\ cc_payment_category_id = "ccpay"
    /\ \E i \in 1 .. Len(transactions) : transactions[i] = CardPaymentOut
    /\ Len(breakdown.rows) = 2
    /\ breakdown.rows[1] =
           [category_id |-> "salary", category_name |-> "Salary",
            category_type |-> "income", actual_amount |-> 5000 * Unit,
            cc_amount |-> 0, cash_amount |-> 0]
    /\ breakdown.rows[2] =
           [category_id |-> "groceries", category_name |-> "Groceries",
            category_type |-> "expense", actual_amount |-> 300 * Unit,
            cc_amount |-> 300 * Unit, cash_amount |-> 0]

(***************************************************************************)
(* Claims about the budget-line lookups.                                   *)
(***************************************************************************)
\* the two cases of each letter
CasePairs ==
    { << "l", "L" >>, << "o", "O" >>, << "a", "A" >>, << "n", "N" >>,
      << "s", "S" >>, << "c", "C" >>, << "r", "R" >> }

\* the names a and b are the same whole name, letter for letter, up to case
SameIgnoringCase(a, b) ==
    /\ Len(a) = Len(b)
    /\ \A i \in 1 .. Len(a) :
           \/ a[i] = b[i]
           \/ << a[i], b[i] >> \in CasePairs
           \/ << b[i], a[i] >> \in CasePairs

\* the positions of names that hold the requested name
Matches(names) ==
    { i \in 1 .. Len(names) : SameIgnoringCase(names[i], requested_name) }

First(S) == CHOOSE i \in S : \A j \in S : i <= j

\* the custom-budget categories in the order searched
SearchOrder == budget.expense_categories \o budget.income_categories

\* C24: each lookup returns the amount of the first category whose whole name
\* equals the requested name ignoring case (the custom budget searched through
\* its expense categories, then its income categories), 0 standing for an
\* amount the entry does not carry, and returns 0 when no category matches
C24_FirstWholeNameMatch ==
    /\ lpc = "returned custom" =>
           LET found == Matches(ColumnOf(SearchOrder, "name"))
           IN  IF found = {} THEN amount_found = 0
               ELSE amount_found = GetOrZero(SearchOrder[First(found)].amount)
    /\ lpc = "returned api" =>
           LET found == Matches(ColumnOf(ByCategoryName(budget_data), "name"))
           IN  IF found = {} THEN amount_found = 0
               ELSE amount_found =
                        GetOrZero(budget_data[First(found)].monthlyAmounts[1])

\* 'loan' asked of a custom budget whose expenses hold 'Loans' and then
\* 'LOAN', and whose income holds 'Loan': the amount of 'LOAN' is returned
C24_Witness ==
    /\ lpc = "returned custom"
    /\ requested_name = << "l", "o", "a", "n" >>
    /\ budget.expense_categories =
           << CustomCat(<< "L", "o", "a", "n", "s" >>, {75 * Unit}),
              CustomCat(<< "L", "O", "A", "N" >>, {100 * Unit}) >>
    /\ budget.income_categories =
           << CustomCat(<< "L", "o", "a", "n" >>, {250 * Unit}) >>
    /\ amount_found = 100 * Unit

(***************************************************************************)
(* Claims about MonarchClient.                                             *)
(***************************************************************************)
Expired == Reply("TransportServerError", TRUE)

\* C25: one call through _api_call_with_retry invokes the remote function at
\* most twice; the second invocation follows a first one that failed with a
\* TransportServerError mentioning 401 and a run of _ensure_authenticated; any
\* other error of the first attempt, and any error of the second, is the way
\* the call ends, with no further invocation
C25_AtMostOneRetry ==
    /\ Len(invocations) <= 2
    /\ cpc = "second" =>
           /\ ensured
           /\ invocations = << Invocation(api_func.instance, Expired) >>
    /\ Len(invocations) = 2 => (ensured /\ cpc = "ready")
    /\ \A k \in 1 .. Len(log) :
           LET invs == log[k].invocations
           IN  /\ Len(invs) <= 2
               /\ Len(invs) = 2 =>
                      /\ invs[1].reply = Expired
                      /\ log[k].ended = invs[2].reply.type
               /\ (Len(invs) = 1 /\ invs[1].reply # Expired) =>
                      log[k].ended = invs[1].reply.type

\* a call whose first attempt met an expired session and whose second attempt,
\* after the re-authentication, failed in turn: that error ends the call
C25_Witness ==
    /\ cpc = "ready"
    /\ ensured
    /\ Len(invocations) = 2
    /\ \E k \in 1 .. Len(log) :
           /\ log[k].op = "get_transactions"
           /\ log[k].invocations = invocations
           /\ invocations[1].reply = Expired
           /\ invocations[2].reply = Expired
           /\ log[k].ended = "TransportServerError"

\* a login() has returned successfully among the first k operations
LoginReturnedBy(k) ==
    \E j \in 1 .. k : log[j].op = "login" /\ log[j].ended = "returned"

\* the flag _authenticated before the k-th operation
AuthenticatedBefore(k) == IF k = 1 THEN FALSE ELSE log[k - 1].authenticated

\* C26: a data operation invoked before any login() has returned
\* successfully raises RuntimeError('Must login first') and invokes nothing
\* remote, and a login() that raises on an unauthenticated client leaves it
\* unauthenticated
C26_MustLoginFirst ==
    /\ ~LoginReturnedBy(Len(log)) =>
           /\ ~_authenticated
           /\ cpc = "ready"
           /\ invocations = <<>>
    /\ cpc = "ready" /\ log # <<>> =>
           log[Len(log)].authenticated = _authenticated
    /\ \A k \in 1 .. Len(log) :
           /\ (log[k].op \in DataOperations /\ ~LoginReturnedBy(k)) =>
                  /\ log[k].ended = "RuntimeError"
                  /\ log[k].invocations = <<>>
           /\ (/\ log[k].op = "login"
               /\ log[k].ended # "returned"
               /\ ~AuthenticatedBefore(k)) => ~log[k].authenticated

\* a login that raised, then a data operation refused
C26_Witness ==
    /\ Len(log) = 2
    /\ log[1].op = "login"
    /\ log[1].ended = "LoginFailedException"
    /\ log[2].op = "get_budgets"
    /\ log[2].ended = "RuntimeError"
    /\ log[2].invocations = <<>>
    /\ ~_authenticated

\* C27: whenever _authenticated is true, the MonarchMoney instance held in
\* self.mm has completed a login, also after a re-authentication that failed
C27_AuthenticatedInstance == _authenticated => mm \in logged_in

\* C28: after every simulated month of project_payoff
\* balance = total_debt + total_interest - total_paid, and a projection
\* returned paid off with balance 0 has
\* total_paid = total_debt + total_interest
C28_RunningTotals ==
    /\ balance = FSub(FAdd(total_debt, total_interest), total_paid)
    /\ (pc = "done" /\ result.paid_off /\ balance = 0) =>
           result.total_paid = FAdd(total_debt, result.total_interest)

\* C29: every expense-type row of calculate_category_breakdown has
\* 0 <= cc_amount <= actual_amount and cash_amount >= 0, refunds included
C29_RowBounds ==
    BrokenDown =>
        \A k \in 1 .. Len(breakdown.rows) :
            breakdown.rows[k].category_type = "expense" =>
                /\ 0 <= breakdown.rows[k].cc_amount
                /\ breakdown.rows[k].cc_amount <=
                       breakdown.rows[k].actual_amount
                /\ breakdown.rows[k].cash_amount >= 0

\* every transaction of the period carries a category of the map that is
\* income-type or expense-type, and none is a CC payment
AllKnownIncomeOrExpense ==
    \A i \in 1 .. Len(PeriodRows) :
        /\ ~IsCcPayment(PeriodRows[i])
        /\ \E c \in CategoryGet(categories, PeriodRows[i].category_id) :
               c.category_type \in {"income", "expense"}

ExpenseRowsOfBreakdown ==
    LET IsExpense(r) == r.category_type = "expense"
    IN  SelectSeq(breakdown.rows, IsExpense)

\* C30: when every transaction of the period has a known income-type or
\* expense-type category and none is a CC payment, the actual_amount of the
\* expense-type rows of the breakdown sum to total_expenses and their
\* cc_amount to cc_expenses
C30_BreakdownMatchesMetrics ==
    (BrokenDown /\ AllKnownIncomeOrExpense) =>
        /\ FSum(ColumnOf(ExpenseRowsOfBreakdown, "actual_amount")) =
               metrics.total_expenses
        /\ FSum(ColumnOf(ExpenseRowsOfBreakdown, "cc_amount")) =
               metrics.cc_expenses

====
